---- MODULE Spec2Model ----
(***************************************************************************)
(* Model of CompletionsProviderImpl                                        *)
(* (packages/language-server/src/plugins/typescript/features/              *)
(*  CompletionProvider.ts): the getCompletions handler with its single-    *)
(* slot lastCompletion cache, the translation of engine entries into       *)
(* completion items, fixTextEditRange, and the code-action part of         *)
(* resolveCompletion.                                                      *)
(*                                                                         *)
(* Text is a sequence of one-character strings ("ab" is <<"a","b">>), so   *)
(* that substring, concatenation, suffix tests and comparison are          *)
(* computed and not assumed.  A JavaScript value that may be undefined or  *)
(* null is a sequence of length 0 (absent) or 1 (present).                 *)
(***************************************************************************)
EXTENDS Integers, Sequences, FiniteSets, TLC

VARIABLES
    lastCompletion, \* this.lastCompletion: None or Some([key, position, completionList])
    call,           \* the last handler call: its inputs, return value and return site
    fixed,          \* the last fixTextEditRange application: inputs and output
    prev,           \* what the call before the last one returned, where it is followed
    resolved        \* the last resolveCompletion call: inputs and output

vars == <<lastCompletion, call, prev, fixed, resolved>>

----------------------------------------------------------------------------
(* Optional values.                                                        *)

None == <<>>
Some(x) == <<x>>
IsSome(o) == o # <<>>
Get(o) == o[1]

----------------------------------------------------------------------------
(* Text.                                                                   *)

Min(a, b) == IF a < b THEN a ELSE b
Max(a, b) == IF a < b THEN b ELSE a
Abs(n) == IF n < 0 THEN -n ELSE n

\* The characters of the texts (line feed and printable ASCII), in increasing code-unit order.
\* The backquote is left out: a TLA+ string cannot hold it.
Alphabet ==
    <<"\n", " ", "!", "\"", "#", "$", "%", "&", "'", "(", ")", "*", "+", ",", "-", ".", "/",
       "0", "1", "2", "3", "4", "5", "6", "7", "8", "9", ":", ";", "<", "=", ">", "?", "@",
       "A", "B", "C", "D", "E", "F", "G", "H", "I", "J", "K", "L", "M", "N", "O", "P", "Q",
       "R", "S", "T", "U", "V", "W", "X", "Y", "Z", "[", "\\", "]", "^", "_", "a", "b",
       "c", "d", "e", "f", "g", "h", "i", "j", "k", "l", "m", "n", "o", "p", "q", "r", "s",
       "t", "u", "v", "w", "x", "y", "z", "{", "|", "}", "~">>

CharCode(c) == CHOOSE i \in 1..Len(Alphabet) : Alphabet[i] = c

\* a < b for JavaScript strings: the first differing code unit decides, a proper prefix is less.
StrLess(a, b) ==
    LET n == Min(Len(a), Len(b))
        d == {i \in 1..n : a[i] # b[i]}
    IN  IF d = {}
        THEN Len(a) < Len(b)
        ELSE LET i == CHOOSE k \in d : \A j \in d : k <= j
             IN  CharCode(a[i]) < CharCode(b[i])

\* String.prototype.substring(from, to): both clamped to [0, length], swapped when from > to.
Substring(s, from, to) ==
    LET f == Max(0, Min(from, Len(s)))
        t == Max(0, Min(to, Len(s)))
    IN  SubSeq(s, Min(f, t) + 1, Max(f, t))

\* String.prototype.substring(from)
SubstringFrom(s, from) == Substring(s, from, Len(s))

StartsWith(s, p) == Len(p) <= Len(s) /\ SubSeq(s, 1, Len(p)) = p
EndsWith(s, p) == Len(p) <= Len(s) /\ SubSeq(s, Len(s) - Len(p) + 1, Len(s)) = p

\* The offsets (0-based) at which p occurs in s.
Occurrences(s, p) == {i \in 0..(Len(s) - Len(p)) : SubSeq(s, i + 1, i + Len(p)) = p}

\* String.prototype.replace(p, r) with a string pattern: the first occurrence only.
ReplaceFirst(s, p, r) ==
    IF Occurrences(s, p) = {}
    THEN s
    ELSE LET i == CHOOSE k \in Occurrences(s, p) : \A j \in Occurrences(s, p) : k <= j
         IN  SubSeq(s, 1, i) \o r \o SubSeq(s, i + Len(p) + 1, Len(s))

IsSpace(c) == c \in {" ", "\n"}
\* \w of a regular expression: letters, digits and the underscore.
IsWordChar(c) ==
    \/ CharCode(c) \in CharCode("0")..CharCode("9")
    \/ CharCode(c) \in CharCode("A")..CharCode("Z")
    \/ CharCode(c) \in CharCode("a")..CharCode("z")
    \/ c = "_"

\* String.prototype.trim()
Trim(s) ==
    LET keep == {i \in 1..Len(s) : ~IsSpace(s[i])}
    IN  IF keep = {}
        THEN <<>>
        ELSE SubSeq(s, CHOOSE i \in keep : \A j \in keep : i <= j,
                       CHOOSE i \in keep : \A j \in keep : j <= i)

\* String.prototype.split(','): the pieces between the commas, in order.
RECURSIVE SplitComma(_)
SplitComma(s) ==
    LET commas == {i \in 1..Len(s) : s[i] = ","}
    IN  IF commas = {}
        THEN <<s>>
        ELSE LET i == CHOOSE k \in commas : \A j \in commas : k <= j
             IN  <<SubSeq(s, 1, i - 1)>> \o SplitComma(SubSeq(s, i + 1, Len(s)))

Range(seq) == {seq[i] : i \in 1..Len(seq)}

\* The flattening of an array of arrays.
RECURSIVE Flatten(_)
Flatten(seqs) == IF seqs = <<>> THEN <<>> ELSE Head(seqs) \o Flatten(Tail(seqs))

----------------------------------------------------------------------------
(* Positions, offsets and the two coordinate spaces.  The document model   *)
(* and the snapshot's mapper are collaborators of the provider: here every *)
(* line has the same length and the generated document is the original     *)
(* one behind a block of synthetic leading lines.                          *)

MaxLine == 1
MaxChar == 4

Pos(l, c) == [line |-> l, character |-> c]
Positions == {Pos(l, c) : l \in 0..MaxLine, c \in 0..MaxChar}
\* Where the cursor is put: along the first line, and at the start of the others.
Cursors == {Pos(0, c) : c \in 0..MaxChar} \cup {Pos(l, 0) : l \in 1..MaxLine}

\* The columns 0..MaxChar and the line feed.
LineLength == MaxChar + 2

\* Document.offsetAt, Document.positionAt and toRange(text, start, end).
offsetAt(position) == position.line * LineLength + position.character
positionAt(offset) == Pos(offset \div LineLength, offset % LineLength)
toRange(start, end) == [start |-> positionAt(start), end |-> positionAt(end)]

\* The synthetic lines the generated document starts with.
GeneratedLineShift == 1

\* SvelteDocumentSnapshot.getGeneratedPosition / getOriginalPosition.
getGeneratedPosition(position) == Pos(position.line + GeneratedLineShift, position.character)
getOriginalPosition(generated) ==
    IF generated.line >= GeneratedLineShift
    THEN Pos(generated.line - GeneratedLineShift, generated.character)
    ELSE Pos(-1, -1)

\* convertRange(snapshot, span): the span's offsets as positions of the generated document.
convertRange(span) == toRange(span.start, span.start + span.length)

\* mapRangeToOriginal(snapshot, range)
mapRangeToOriginal(range) ==
    [start |-> getOriginalPosition(range.start), end |-> getOriginalPosition(range.end)]

\* A value computed by a lookup table or helper outside this file, kept as the application.
Lookup(fn, arg) == [fn |-> fn, arg |-> arg]

\* JavaScript truthiness of an optional string.
Truthy(o) == IsSome(o) /\ Get(o) # <<>>

----------------------------------------------------------------------------
(* Engine entries (ts.CompletionEntry) and completion items.               *)

\* ts.ScriptElementKind
scriptElement == "script"
memberVariableElement == "property"
jsxAttribute == "JSX attribute"

RawEntry(name, kind, kindModifiers, sortText, source, insertText, replacementSpan) ==
    [name |-> name, kind |-> kind, kindModifiers |-> kindModifiers, sortText |-> sortText,
     source |-> source, insertText |-> insertText, replacementSpan |-> replacementSpan,
     isRecommended |-> None]

TextEditReplace(range, newText) == [range |-> range, newText |-> newText]

\* private isSvelteComponentImport(className)
isSvelteComponentImport(className) == EndsWith(className, <<"_", "_", "S", "v", "e", "l", "t", "e", "C", "o", "m", "p", "o", "n", "e", "n", "t", "_">>)

\* changeSvelteComponentName(name): name.replace(/(\w+)__SvelteComponent_/, '$1').  The
\* match is the leftmost one; its \w+ starts where the run of word characters before a
\* marker starts and is as long as a marker still follows it.
changeSvelteComponentName(name) ==
    LET marker == <<"_", "_", "S", "v", "e", "l", "t", "e", "C", "o", "m", "p", "o", "n", "e", "n", "t", "_">>
        Least(S) == CHOOSE x \in S : \A y \in S : x <= y
        Greatest(S) == CHOOSE x \in S : \A y \in S : y <= x
        AfterLast(breaks) == IF breaks = {} THEN 1 ELSE 1 + Greatest(breaks)
        \* where the run of word characters that holds the character j starts
        RunStart(j) == AfterLast({k \in 1..j : ~IsWordChar(name[k])})
        Without(j) == SubSeq(name, 1, j) \o SubSeq(name, j + Len(marker) + 1, Len(name))
        Longest(ends, i) == Without(Greatest({j \in ends : RunStart(j) = i}))
        \* ends: the word characters that a marker follows
        Leftmost(ends) ==
            IF ends = {} THEN name ELSE Longest(ends, Least({RunStart(j) : j \in ends}))
    IN  Leftmost({j \in Occurrences(name, marker) : j >= 1 /\ IsWordChar(name[j])})

\* An import statement of the script: import {clause} from '..' (named) or
\* import clause from '..'; fromSvelte: the module specifier ends in .svelte.
ImportStatement(named, clause, fromSvelte) ==
    [named |-> named, clause |-> clause, fromSvelte |-> fromSvelte]

\* Whether scriptImportRegex matches the statement: any clause without '}' between the
\* braces, and a non-empty word (\w+?) for a default import.
MatchesScriptImportRegex(stmt) ==
    IF stmt.named
    THEN "}" \notin Range(stmt.clause)
    ELSE stmt.clause # <<>> /\ \A c \in Range(stmt.clause) : IsWordChar(c)

\* private getExistingImports(document)
getExistingImports(document) ==
    LET matches == SelectSeq(document.importStatements, MatchesScriptImportRegex)
        rawImports == [i \in 1..Len(matches) |-> SplitComma(matches[i].clause)]
        flat == Flatten(rawImports)
        tidiedImports == [i \in 1..Len(flat) |-> Trim(flat[i])]
    IN  Range(tidiedImports)

\* private isExistingSvelteComponentImport(snapshot, name, source): the text of the snapshot
\* holds "import <name> from '" and, anywhere after it, ".svelte'".
isExistingSvelteComponentImport(document, name, source) ==
    /\ Truthy(source)
    /\ \E i \in 1..Len(document.importStatements) :
          /\ ~document.importStatements[i].named
          /\ document.importStatements[i].clause = name
          /\ \E j \in i..Len(document.importStatements) :
                document.importStatements[j].fromSvelte

\* A variant of getCompletionLabelAndInsert that keeps the replacement span of a script
\* element with a kind modifier.
getCompletionLabelAndInsertKeepingSpan(document, comp) ==
    LET isScriptElement == comp.kind = scriptElement
        hasModifier == Truthy(comp.kindModifiers)
        isSvelteComp == isSvelteComponentImport(comp.name)
        LabelAndInsert(name) ==
            IF isSvelteComp /\ isExistingSvelteComponentImport(document, name, comp.source)
            THEN None
            ELSE IF isScriptElement /\ hasModifier
            THEN Some([label |-> IF ~EndsWith(name, Get(comp.kindModifiers))
                                 THEN name \o Get(comp.kindModifiers)
                                 ELSE name,
                       insertText |-> Some(name),
                       isSvelteComp |-> isSvelteComp,
                       replacementSpan |-> comp.replacementSpan])
            ELSE IF IsSome(comp.replacementSpan)
            THEN Some([label |-> name,
                       insertText |->
                           IF Truthy(comp.insertText)
                           THEN Some(changeSvelteComponentName(Get(comp.insertText)))
                           ELSE None,
                       isSvelteComp |-> isSvelteComp,
                       replacementSpan |-> comp.replacementSpan])
            ELSE Some([label |-> name,
                       insertText |-> None,
                       isSvelteComp |-> isSvelteComp,
                       replacementSpan |-> None])
    IN  LabelAndInsert(IF isSvelteComp THEN changeSvelteComponentName(comp.name) ELSE comp.name)

\* private getCompletionLabelAndInsert(snapshot, comp)
getCompletionLabelAndInsert(document, comp) ==
    LET isScriptElement == comp.kind = scriptElement
        hasModifier == Truthy(comp.kindModifiers)
        isSvelteComp == isSvelteComponentImport(comp.name)
        LabelAndInsert(name) ==
            IF isSvelteComp /\ isExistingSvelteComponentImport(document, name, comp.source)
            THEN None
            ELSE IF isScriptElement /\ hasModifier
            THEN Some([label |-> IF ~EndsWith(name, Get(comp.kindModifiers))
                                 THEN name \o Get(comp.kindModifiers)
                                 ELSE name,
                       insertText |-> Some(name),
                       isSvelteComp |-> isSvelteComp,
                       replacementSpan |-> None])
            ELSE IF IsSome(comp.replacementSpan)
            THEN Some([label |-> name,
                       insertText |->
                           IF Truthy(comp.insertText)
                           THEN Some(changeSvelteComponentName(Get(comp.insertText)))
                           ELSE None,
                       isSvelteComp |-> isSvelteComp,
                       replacementSpan |-> comp.replacementSpan])
            ELSE Some([label |-> name,
                       insertText |-> None,
                       isSvelteComp |-> isSvelteComp,
                       replacementSpan |-> None])
    IN  LabelAndInsert(IF isSvelteComp THEN changeSvelteComponentName(comp.name) ELSE comp.name)

\* A variant of toCompletionItem that does not consult the existing imports.
toCompletionItemKeepingImported(document, comp, uri, position, existingImports) ==
    LET Item(c) ==
            Some([label |-> c.label,
                  insertText |-> c.insertText,
                  kind |-> Some(Lookup("scriptElementKindToCompletionItemKind", comp.kind)),
                  commitCharacters |->
                      Some(Lookup("getCommitCharactersForScriptElement", comp.kind)),
                  sortText |-> IF c.isSvelteComp THEN Some(<<"-", "1">>) ELSE comp.sortText,
                  preselect |-> IF c.isSvelteComp THEN Some(TRUE) ELSE comp.isRecommended,
                  textEdit |->
                      IF IsSome(c.replacementSpan)
                      THEN Some(TextEditReplace(
                               convertRange(Get(c.replacementSpan)),
                               IF IsSome(c.insertText) THEN Get(c.insertText) ELSE c.label))
                      ELSE None,
                  additionalTextEdits |-> None,
                  detail |-> None,
                  documentation |-> None,
                  data |-> Some([entry |-> comp, uri |-> uri, position |-> position])])
        Translated(completionLabelAndInsert) ==
            IF ~IsSome(completionLabelAndInsert)
            THEN None
            ELSE Item(Get(completionLabelAndInsert))
    IN  Translated(getCompletionLabelAndInsert(document, comp))

\* private toCompletionItem(snapshot, comp, uri, position, existingImports)
toCompletionItem(document, comp, uri, position, existingImports) ==
    LET Item(c) ==
            Some([label |-> c.label,
                  insertText |-> c.insertText,
                  kind |-> Some(Lookup("scriptElementKindToCompletionItemKind", comp.kind)),
                  commitCharacters |->
                      Some(Lookup("getCommitCharactersForScriptElement", comp.kind)),
                  sortText |-> IF c.isSvelteComp THEN Some(<<"-", "1">>) ELSE comp.sortText,
                  preselect |-> IF c.isSvelteComp THEN Some(TRUE) ELSE comp.isRecommended,
                  textEdit |->
                      IF IsSome(c.replacementSpan)
                      THEN Some(TextEditReplace(
                               convertRange(Get(c.replacementSpan)),
                               IF IsSome(c.insertText) THEN Get(c.insertText) ELSE c.label))
                      ELSE None,
                  additionalTextEdits |-> None,
                  detail |-> None,
                  documentation |-> None,
                  data |-> Some([entry |-> comp, uri |-> uri, position |-> position])])
        Translated(completionLabelAndInsert) ==
            IF ~IsSome(completionLabelAndInsert)
            THEN None
            ELSE IF /\ Get(completionLabelAndInsert).isSvelteComp
                    /\ Get(completionLabelAndInsert).label \in existingImports
            THEN None
            ELSE Item(Get(completionLabelAndInsert))
    IN  Translated(getCompletionLabelAndInsert(document, comp))

\* mapCompletionItemToOriginal(tsDoc, item): the text edit's range in original coordinates.
mapCompletionItemToOriginal(item) ==
    IF IsSome(item.textEdit)
    THEN [item EXCEPT !.textEdit =
             Some([Get(item.textEdit) EXCEPT !.range = mapRangeToOriginal(@)])]
    ELSE item

\* A variant of fixTextEditRange with the comparison of the columns inverted.
fixTextEditRangeInverted(wordRangePosition, completionItem) ==
    IF ~IsSome(completionItem.textEdit)
    THEN completionItem
    ELSE LET textEdit == Get(completionItem.textEdit)
             newText == textEdit.newText
             start == textEdit.range.start
             wordRangeStartCharacter == wordRangePosition.character
         IN  IF \/ wordRangePosition.line # wordRangePosition.line
                \/ start.character < wordRangePosition.character
             THEN completionItem
             ELSE [completionItem EXCEPT
                     !.textEdit = Some(
                        [newText |-> SubstringFrom(newText,
                                                   wordRangeStartCharacter - start.character),
                         range |-> [textEdit.range EXCEPT
                                      !.start = Pos(start.line, wordRangeStartCharacter)]]),
                     !.additionalTextEdits = Some(<<
                        TextEditReplace(
                            [start |-> start,
                             end |-> Pos(start.line, wordRangeStartCharacter)],
                            Substring(newText, 0,
                                      wordRangeStartCharacter - start.character)) >>)]

\* private fixTextEditRange(wordRangePosition, completionItem)
fixTextEditRange(wordRangePosition, completionItem) ==
    IF ~IsSome(completionItem.textEdit)
    THEN completionItem
    ELSE LET textEdit == Get(completionItem.textEdit)
             newText == textEdit.newText
             start == textEdit.range.start
             wordRangeStartCharacter == wordRangePosition.character
         IN  IF \/ wordRangePosition.line # wordRangePosition.line
                \/ start.character > wordRangePosition.character
             THEN completionItem
             ELSE [completionItem EXCEPT
                     !.textEdit = Some(
                        [newText |-> SubstringFrom(newText,
                                                   wordRangeStartCharacter - start.character),
                         range |-> [textEdit.range EXCEPT
                                      !.start = Pos(start.line, wordRangeStartCharacter)]]),
                     !.additionalTextEdits = Some(<<
                        TextEditReplace(
                            [start |-> start,
                             end |-> Pos(start.line, wordRangeStartCharacter)],
                            Substring(newText, 0,
                                      wordRangeStartCharacter - start.character)) >>)]

\* A variant of componentInfoToCompletionEntry that sets no sort text.
componentInfoToCompletionEntryUnsorted(info, prefix, kind, wordRange) ==
    LET name == prefix \o info.name
    IN  [label |-> name,
         insertText |-> None,
         kind |-> kind,
         commitCharacters |-> None,
         sortText |-> None,
         preselect |-> None,
         textEdit |-> IF wordRange.start # wordRange.end
                      THEN Some(TextEditReplace(toRange(wordRange.start, wordRange.end), name))
                      ELSE None,
         additionalTextEdits |-> None,
         detail |-> Some(info.name \o <<":", " ">> \o info.type),
         documentation |-> IF Truthy(info.doc)
                           THEN Some([kind |-> "markdown", value |-> Get(info.doc)])
                           ELSE info.doc,
         data |-> None]

\* private componentInfoToCompletionEntry(info, prefix, kind, doc, wordRange)
componentInfoToCompletionEntry(info, prefix, kind, wordRange) ==
    LET name == prefix \o info.name
    IN  [label |-> name,
         insertText |-> None,
         kind |-> kind,
         commitCharacters |-> None,
         sortText |-> Some(<<"-", "1">>),
         preselect |-> None,
         textEdit |-> IF wordRange.start # wordRange.end
                      THEN Some(TextEditReplace(toRange(wordRange.start, wordRange.end), name))
                      ELSE None,
         additionalTextEdits |-> None,
         detail |-> Some(info.name \o <<":", " ">> \o info.type),
         \* info.doc && {...}: an empty or absent doc is passed on as it is
         documentation |-> IF Truthy(info.doc)
                           THEN Some([kind |-> "markdown", value |-> Get(info.doc)])
                           ELSE info.doc,
         data |-> None]

\* A variant of getEventAndSlotLetCompletions that leaves the slot-lets out.
getEventAndSlotLetCompletionsEventsOnly(componentInfo, attributeContext, wordRange) ==
    IF ~IsSome(componentInfo)
    THEN <<>>
    ELSE IF IsSome(attributeContext) /\ Get(attributeContext).inValue
    THEN <<>>
    ELSE [i \in 1..Len(Get(componentInfo).events) |->
             componentInfoToCompletionEntry(Get(componentInfo).events[i], <<"o", "n", ":">>, None,
                                            wordRange)]

\* private getEventAndSlotLetCompletions(componentInfo, document, attributeContext, wordRange)
getEventAndSlotLetCompletions(componentInfo, attributeContext, wordRange) ==
    IF ~IsSome(componentInfo)
    THEN <<>>
    ELSE IF IsSome(attributeContext) /\ Get(attributeContext).inValue
    THEN <<>>
    ELSE [i \in 1..Len(Get(componentInfo).events) |->
             componentInfoToCompletionEntry(Get(componentInfo).events[i], <<"o", "n", ":">>, None,
                                            wordRange)]
         \o
         [i \in 1..Len(Get(componentInfo).slotLets) |->
             componentInfoToCompletionEntry(Get(componentInfo).slotLets[i], <<"l", "e", "t", ":">>, None,
                                            wordRange)]

\* Type definitions from svelte-shims.d.ts that shouldn't appear in completion suggestions.
svelte2tsxTypes ==
    { <<"S", "v", "e", "l", "t", "e", "2", "T", "s", "x", "C", "o", "m", "p", "o", "n", "e", "n", "t">>, <<"S", "v", "e", "l", "t", "e", "2", "T", "s", "x", "C", "o", "m", "p", "o", "n", "e", "n", "t", "C", "o", "n", "s", "t", "r", "u", "c", "t", "o", "r", "P", "a", "r", "a", "m", "e", "t", "e", "r", "s">>,
      <<"S", "v", "e", "l", "t", "e", "C", "o", "m", "p", "o", "n", "e", "n", "t", "C", "o", "n", "s", "t", "r", "u", "c", "t", "o", "r">>, <<"S", "v", "e", "l", "t", "e", "A", "c", "t", "i", "o", "n", "R", "e", "t", "u", "r", "n", "T", "y", "p", "e">>, <<"S", "v", "e", "l", "t", "e", "T", "r", "a", "n", "s", "i", "t", "i", "o", "n", "C", "o", "n", "f", "i", "g">>,
      <<"S", "v", "e", "l", "t", "e", "T", "r", "a", "n", "s", "i", "t", "i", "o", "n", "R", "e", "t", "u", "r", "n", "T", "y", "p", "e">>, <<"S", "v", "e", "l", "t", "e", "A", "n", "i", "m", "a", "t", "i", "o", "n", "R", "e", "t", "u", "r", "n", "T", "y", "p", "e">>, <<"S", "v", "e", "l", "t", "e", "W", "i", "t", "h", "O", "p", "t", "i", "o", "n", "a", "l", "P", "r", "o", "p", "s">>,
      <<"S", "v", "e", "l", "t", "e", "A", "l", "l", "P", "r", "o", "p", "s">>, <<"S", "v", "e", "l", "t", "e", "P", "r", "o", "p", "s", "A", "n", "y", "F", "a", "l", "l", "b", "a", "c", "k">>, <<"S", "v", "e", "l", "t", "e", "S", "l", "o", "t", "s", "A", "n", "y", "F", "a", "l", "l", "b", "a", "c", "k">>,
      <<"S", "v", "e", "l", "t", "e", "R", "e", "s", "t", "P", "r", "o", "p", "s">>, <<"S", "v", "e", "l", "t", "e", "S", "l", "o", "t", "s">>, <<"S", "v", "e", "l", "t", "e", "S", "t", "o", "r", "e">> }

\* isValidCompletion(document, position)(value); isCompletionInHTMLStartTag is
\* !!getNodeIfIsInHTMLStartTag(document.html, offset).
isValidCompletion(isCompletionInHTMLStartTag, value) ==
    LET isNoSvelte2tsxCompletion ==
            \/ value.kindModifiers # Some(<<"d", "e", "c", "l", "a", "r", "e">>)
            \/ /\ ~StartsWith(value.name, <<"_", "_", "s", "v", "e", "l", "t", "e", "t", "s", "_">>)
               /\ value.name \notin svelte2tsxTypes
    IN  IF ~isCompletionInHTMLStartTag
        THEN isNoSvelte2tsxCompletion
        ELSE value.kind # jsxAttribute /\ isNoSvelte2tsxCompletion

----------------------------------------------------------------------------
(* getCompletions.                                                         *)
(*                                                                         *)
(* A request rq carries the handler's arguments and what its collaborators *)
(* answer for this document and position:                                  *)
(*   rq.document           filePath (absent for an untitled document) and  *)
(*                         the import statements of its script             *)
(*   rq.position, rq.completionContext, rq.cancelled (the token's flag)    *)
(*   rq.at                 the cursor's surroundings (tags, node, text,    *)
(*                         word range, component, parser error)            *)
(*   rq.entries            what lang.getCompletionsAtPosition returns      *)
(* The handler awaits once, before it reads anything but the style tag;    *)
(* the rest runs without interruption, so a call is one step.              *)

\* CompletionTriggerKind
Invoked == 1
TriggerCharacter == 2
TriggerForIncompleteCompletions == 3

\* A threshold one entry too high.
MaxGlobalCompletionsRaised == 500 + 1

\* The threshold of the two "false global completions" tests.
MaxGlobalCompletions == 500

\* private readonly validTriggerCharacters (the backquote is written out)
validTriggerCharacters == <<".", "\"", "'", "backquote", "/", "@", "<", "#">>

\* A variant of isValidTriggerCharacter that allows every character.
isValidTriggerCharacterAny(character) == IsSome(character)

\* private isValidTriggerCharacter(character)
isValidTriggerCharacter(character) ==
    IsSome(character) /\ Get(character) \in Range(validTriggerCharacters)

CompletionListCreate(items, isIncomplete) == [items |-> items, isIncomplete |-> isIncomplete]

\* A variant of canReuseLastCompletion that does not compare the lines.
canReuseLastCompletionAnyLine(last, triggerKind, triggerCharacter, rq) ==
    /\ IsSome(last)
    /\ Some(Get(last).key) = rq.document.filePath
    /\ \/ /\ Abs(Get(last).position.character - rq.position.character) < 2
          /\ \/ triggerKind = Some(TriggerForIncompleteCompletions)
             \/ /\ triggerCharacter = Some(".")
                /\ rq.at.isPartOfImportStatement
       \/ /\ Abs(Get(last).position.character - rq.position.character) < 4
          /\ triggerCharacter = Some(":")
          /\ rq.at.inStartTag

\* A variant of canReuseLastCompletion whose first window is one column narrower.
canReuseLastCompletionNarrow(last, triggerKind, triggerCharacter, rq) ==
    /\ IsSome(last)
    /\ Some(Get(last).key) = rq.document.filePath
    /\ Get(last).position.line = rq.position.line
    /\ \/ /\ Abs(Get(last).position.character - rq.position.character) < 1
          /\ \/ triggerKind = Some(TriggerForIncompleteCompletions)
             \/ /\ triggerCharacter = Some(".")
                /\ rq.at.isPartOfImportStatement
       \/ /\ Abs(Get(last).position.character - rq.position.character) < 4
          /\ triggerCharacter = Some(":")
          /\ rq.at.inStartTag

\* private canReuseLastCompletion(lastCompletion, triggerKind, triggerCharacter, document,
\* position); of the document it reads the file path, isPartOfImportStatement(text, position)
\* and getNodeIfIsInStartTag(html, offset).
canReuseLastCompletion(last, triggerKind, triggerCharacter, rq) ==
    /\ IsSome(last)
    /\ Some(Get(last).key) = rq.document.filePath
    /\ Get(last).position.line = rq.position.line
    /\ \/ /\ Abs(Get(last).position.character - rq.position.character) < 2
          /\ \/ triggerKind = Some(TriggerForIncompleteCompletions)
             \/ /\ triggerCharacter = Some(".")
                /\ rq.at.isPartOfImportStatement
       \/ /\ Abs(Get(last).position.character - rq.position.character) < 4
          /\ triggerCharacter = Some(":")
          /\ rq.at.inStartTag

\* private jsxTransformationPropStringLiteralCompletion(lang, componentInfo, position, tsDoc);
\* rq.at.jsxAttribute is the string-literal JSX attribute around the offset, when the program
\* has the source file and such an attribute exists.
jsxTransformationPropStringLiteralCompletion(rq) ==
    IF ~IsSome(rq.at.componentInfo) \/ rq.useNewTransformation
    THEN None
    ELSE IF ~IsSome(rq.at.jsxAttribute)
    THEN None
    ELSE LET attr == Get(rq.at.jsxAttribute)
             replacementSpan ==
                 IF attr.width # 0
                 THEN Some([start |-> attr.start + 1, length |-> attr.width - 2])
                 ELSE None
         IN  Some([i \in 1..Len(attr.propValues) |->
                      [attr.propValues[i] EXCEPT !.replacementSpan = replacementSpan]])

\* The outcome of one call on the cache `last`: the value returned, the cache afterwards,
\* the return statement taken (site) and whether lang.getCompletionsAtPosition was called.
Outcome(result, last, site, queried) ==
    [result |-> result, lastCompletion |-> last, site |-> site, queried |-> queried]

\* getCompletions from the engine's query to the end: the answer is capped, filtered,
\* translated, joined with the metadata items and stored.
completionsFromEngine(rq) ==
    LET document == rq.document
        position == rq.position
        at == rq.at
        filePath == Get(document.filePath)
        svelteNodeType == IF IsSome(at.svelteNode) THEN Get(at.svelteNode).type ELSE "none"
        wordRange == at.wordRange
        componentInfo == at.componentInfo
        attributeContext == IF IsSome(componentInfo) THEN at.attributeContext ELSE None
        engineEntries == rq.entries
        inValue == IsSome(attributeContext) /\ Get(attributeContext).inValue
        props ==
            IF ~inValue /\ IsSome(componentInfo)
            THEN [i \in 1..Len(Get(componentInfo).props) |->
                     componentInfoToCompletionEntry(
                         Get(componentInfo).props[i], <<>>,
                         Some(Lookup("CompletionItemKind", "Field")), wordRange)]
            ELSE <<>>
        existingImports == getExistingImports(document)
        wordRangeStartPosition == positionAt(wordRange.start)
        Translated(valid) ==
            [i \in 1..Len(valid) |->
                toCompletionItem(document, valid[i], Lookup("pathToUrl", filePath),
                                 position, existingImports)]
        Fixed(notNull) ==
            [i \in 1..Len(notNull) |->
                fixTextEditRange(wordRangeStartPosition,
                                 mapCompletionItemToOriginal(Get(notNull[i])))]
        completionItems(completions) ==
            Fixed(SelectSeq(
                Translated(SelectSeq(completions,
                                     LAMBDA comp : isValidCompletion(at.inHTMLStartTag, comp))),
                IsSome))
        Stored(completionList) ==
            Outcome(Some(completionList),
                    Some([key |-> filePath, position |-> position,
                          completionList |-> Some(completionList)]),
                    "computed", TRUE)
        Answered(completions, eventAndSlotLetCompletions) ==
            IF Len(completions) = 0 /\ Len(eventAndSlotLetCompletions) = 0
            THEN Outcome(IF at.parserError
                         THEN Some(CompletionListCreate(<<>>, TRUE)) ELSE None,
                         None, "nothing", TRUE)
            ELSE IF /\ Len(completions) > MaxGlobalCompletions
                    /\ svelteNodeType = "Element"
                    /\ completions[1].kind # memberVariableElement
            THEN Outcome(None, None, "falseGlobals", TRUE)
            ELSE IF /\ Len(completions) > MaxGlobalCompletions
                    /\ svelteNodeType = "InlineComponent"
                    /\ at.textBefore \o Substring(at.textAfter, 0, 1) \in {<<" ", " ">>, <<" ", ">">>, <<" ", "/">>}
            THEN Outcome(Some(CompletionListCreate(eventAndSlotLetCompletions \o props,
                                                   at.parserError)),
                         None, "narrowed", TRUE)
            ELSE Stored(CompletionListCreate(
                            completionItems(completions) \o eventAndSlotLetCompletions,
                            at.parserError))
        Entries(fallback) == IF IsSome(fallback) THEN Get(fallback) ELSE <<>>
    IN  Answered(IF Len(engineEntries) # 0
                 THEN engineEntries
                 ELSE Entries(jsxTransformationPropStringLiteralCompletion(rq)),
                 getEventAndSlotLetCompletions(componentInfo, attributeContext, wordRange))

\* A variant of completionsOnMiss without the test of tsDoc.isInGenerated.
completionsOnMissUnmapped(rq) ==
    LET at == rq.at
        triggerCharacter ==
            IF IsSome(rq.completionContext)
            THEN Get(rq.completionContext).triggerCharacter ELSE None
        svelteNodeType == IF IsSome(at.svelteNode) THEN Get(at.svelteNode).type ELSE "none"
        svelteNodeParentType ==
            IF IsSome(at.svelteNode) THEN Get(at.svelteNode).parentType ELSE "none"
        attributeContext == IF IsSome(at.componentInfo) THEN at.attributeContext ELSE None
        eventAndSlotLetCompletions ==
            getEventAndSlotLetCompletions(at.componentInfo, attributeContext, at.wordRange)
    IN  IF triggerCharacter = Some("*")
        THEN Outcome(at.jsDocTemplate, None, "jsDoc", FALSE)
        ELSE IF \/ /\ svelteNodeType = "Text"
                   /\ svelteNodeParentType \in
                          {"Element", "InlineComponent", "Fragment", "SlotTemplate"}
                \/ at.textBefore \o at.textAfter = <<">", "<", "/">>
        THEN Outcome(None, None, "htmlText", FALSE)
        ELSE IF rq.cancelled
        THEN Outcome(None, None, "cancelledBeforeMetadata", FALSE)
        ELSE IF triggerCharacter = Some(":")
        THEN Outcome(Some(CompletionListCreate(eventAndSlotLetCompletions, at.parserError)),
                     None, "eventOrSlotLet", FALSE)
        ELSE IF rq.cancelled
        THEN Outcome(None, None, "cancelledBeforeEngine", FALSE)
        ELSE completionsFromEngine(rq)

\* A variant of completionsOnMiss that never looks at the cancellation token.
completionsOnMissUncancelled(rq) ==
    LET at == rq.at
        triggerCharacter ==
            IF IsSome(rq.completionContext)
            THEN Get(rq.completionContext).triggerCharacter ELSE None
        svelteNodeType == IF IsSome(at.svelteNode) THEN Get(at.svelteNode).type ELSE "none"
        svelteNodeParentType ==
            IF IsSome(at.svelteNode) THEN Get(at.svelteNode).parentType ELSE "none"
        attributeContext == IF IsSome(at.componentInfo) THEN at.attributeContext ELSE None
        eventAndSlotLetCompletions ==
            getEventAndSlotLetCompletions(at.componentInfo, attributeContext, at.wordRange)
    IN  IF ~at.isInGenerated
        THEN Outcome(None, None, "notInGenerated", FALSE)
        ELSE IF triggerCharacter = Some("*")
        THEN Outcome(at.jsDocTemplate, None, "jsDoc", FALSE)
        ELSE IF \/ /\ svelteNodeType = "Text"
                   /\ svelteNodeParentType \in
                          {"Element", "InlineComponent", "Fragment", "SlotTemplate"}
                \/ at.textBefore \o at.textAfter = <<">", "<", "/">>
        THEN Outcome(None, None, "htmlText", FALSE)
        ELSE IF triggerCharacter = Some(":")
        THEN Outcome(Some(CompletionListCreate(eventAndSlotLetCompletions, at.parserError)),
                     None, "eventOrSlotLet", FALSE)
        ELSE completionsFromEngine(rq)

\* getCompletions after the cache lookup has missed, up to the engine's query: the mapped
\* position, the doc-comment template, text between tags, the two tests of the cancellation
\* token and the metadata items, which ':' returns alone.
completionsOnMiss(rq) ==
    LET at == rq.at
        triggerCharacter ==
            IF IsSome(rq.completionContext)
            THEN Get(rq.completionContext).triggerCharacter ELSE None
        isJsDocTriggerCharacter == triggerCharacter = Some("*")
        isEventOrSlotLetTriggerCharacter == triggerCharacter = Some(":")
        svelteNodeType == IF IsSome(at.svelteNode) THEN Get(at.svelteNode).type ELSE "none"
        svelteNodeParentType ==
            IF IsSome(at.svelteNode) THEN Get(at.svelteNode).parentType ELSE "none"
        componentInfo == at.componentInfo
        attributeContext == IF IsSome(componentInfo) THEN at.attributeContext ELSE None
        eventAndSlotLetCompletions ==
            getEventAndSlotLetCompletions(componentInfo, attributeContext, at.wordRange)
    IN  IF ~at.isInGenerated
        THEN Outcome(None, None, "notInGenerated", FALSE)
        ELSE IF isJsDocTriggerCharacter
        THEN Outcome(at.jsDocTemplate, None, "jsDoc", FALSE)
        ELSE IF \/ /\ svelteNodeType = "Text"
                   /\ svelteNodeParentType \in
                          {"Element", "InlineComponent", "Fragment", "SlotTemplate"}
                \/ at.textBefore \o at.textAfter = <<">", "<", "/">>
        THEN Outcome(None, None, "htmlText", FALSE)
        ELSE IF rq.cancelled
        THEN Outcome(None, None, "cancelledBeforeMetadata", FALSE)
        ELSE IF isEventOrSlotLetTriggerCharacter
        THEN Outcome(Some(CompletionListCreate(eventAndSlotLetCompletions, at.parserError)),
                     None, "eventOrSlotLet", FALSE)
        ELSE IF rq.cancelled
        THEN Outcome(None, None, "cancelledBeforeEngine", FALSE)
        ELSE completionsFromEngine(rq)

\* A variant of completionsUpToLookup that never reuses the last completion.
completionsUpToLookupNoReuse(last, rq) ==
    LET triggerCharacter ==
            IF IsSome(rq.completionContext)
            THEN Get(rq.completionContext).triggerCharacter ELSE None
        triggerKind ==
            IF IsSome(rq.completionContext)
            THEN Get(rq.completionContext).triggerKind ELSE None
    IN  IF rq.at.inStyle
        THEN Some(Outcome(None, last, "style", FALSE))
        ELSE IF ~IsSome(rq.document.filePath)
        THEN Some(Outcome(None, last, "noFilePath", FALSE))
        ELSE IF /\ triggerKind = Some(TriggerCharacter)
                /\ ~isValidTriggerCharacter(triggerCharacter)
                /\ triggerCharacter # Some("*")
                /\ triggerCharacter # Some(":")
        THEN Some(Outcome(None, last, "invalidTrigger", FALSE))
        ELSE None

\* getCompletions up to the cache lookup: the style tag, the file path, the trigger
\* character and the reuse of the last completion; None when the lookup misses.
completionsUpToLookup(last, rq) ==
    LET triggerCharacter ==
            IF IsSome(rq.completionContext)
            THEN Get(rq.completionContext).triggerCharacter ELSE None
        triggerKind ==
            IF IsSome(rq.completionContext)
            THEN Get(rq.completionContext).triggerKind ELSE None
        validTriggerCharacter == isValidTriggerCharacter(triggerCharacter)
        isCustomTriggerCharacter == triggerKind = Some(TriggerCharacter)
        isJsDocTriggerCharacter == triggerCharacter = Some("*")
        isEventOrSlotLetTriggerCharacter == triggerCharacter = Some(":")
    IN  IF rq.at.inStyle
        THEN Some(Outcome(None, last, "style", FALSE))
        ELSE IF ~IsSome(rq.document.filePath)
        THEN Some(Outcome(None, last, "noFilePath", FALSE))
        ELSE IF /\ isCustomTriggerCharacter
                /\ ~validTriggerCharacter
                /\ ~isJsDocTriggerCharacter
                /\ ~isEventOrSlotLetTriggerCharacter
        THEN Some(Outcome(None, last, "invalidTrigger", FALSE))
        ELSE IF canReuseLastCompletion(last, triggerKind, triggerCharacter, rq)
        THEN Some(Outcome(Get(last).completionList,
                          Some([Get(last) EXCEPT !.position = rq.position]),
                          "reused", FALSE))
        ELSE None

\* A variant of getCompletions that leaves the cache as it is when the lookup misses and
\* nothing is stored.
getCompletionsKeeping(last, rq) ==
    LET OrOnMiss(upToLookup) ==
            IF IsSome(upToLookup)
            THEN Get(upToLookup)
            ELSE [completionsOnMiss(rq) EXCEPT !.lastCompletion = IF @ = None THEN last ELSE @]
    IN  OrOnMiss(completionsUpToLookup(last, rq))

\* A variant of getCompletions that stores nothing after a miss.
getCompletionsForgetting(last, rq) ==
    LET OrOnMiss(upToLookup) ==
            IF IsSome(upToLookup)
            THEN Get(upToLookup)
            ELSE [completionsOnMiss(rq) EXCEPT !.lastCompletion = None]
    IN  OrOnMiss(completionsUpToLookup(last, rq))

\* async getCompletions(document, position, completionContext, cancellationToken): on a
\* miss the cache is cleared (completionsOnMiss starts from an empty one).
getCompletions(last, rq) ==
    LET OrOnMiss(upToLookup) ==
            IF IsSome(upToLookup) THEN Get(upToLookup) ELSE completionsOnMiss(rq)
    IN  OrOnMiss(completionsUpToLookup(last, rq))
----------------------------------------------------------------------------
(* The requests the model makes.  A request is built in the order in which *)
(* the handler reads its inputs; what a call returns before reading is     *)
(* left at its default, so that two requests differ only in what the call  *)
(* can observe (or in what a property of the call speaks about).           *)

MaxWord == 1        \* the longest word typed left of the cursor
MaxEntries == 2     \* the longest list of distinct entries the engine returns

Document(filePath, importStatements) ==
    [filePath |-> filePath, importStatements |-> importStatements]

\* import C from './C.svelte'
ImportC == ImportStatement(FALSE, <<"C">>, TRUE)
\* import { C, x } from './lib'
ImportNamedC == ImportStatement(TRUE, <<" ", "C", ",", " ", "x", " ">>, FALSE)

\* The documents: two files and an untitled one.  The import statements are text, read
\* when the call gets to them.
Documents == { Document(Some("a.svelte"), <<>>), Document(Some("b.svelte"), <<>>),
               Document(None, <<>>) }

\* The scripts a document may hold.  scope "core" is what the cache's state machine is
\* run on; scope "all" is what a single computation is run on.
ImportLists(scope) ==
    IF scope = "core"
    THEN { <<>>, <<ImportNamedC>> }
    ELSE { <<>>, <<ImportNamedC>>, <<ImportC>>,
           <<ImportStatement(FALSE, <<"C">>, FALSE), ImportStatement(FALSE, <<"D">>, TRUE)>>,
           <<ImportStatement(FALSE, <<"t", "y", "p", "e", " ", "C">>, FALSE)>> }

WithImports(rq, statements) == [rq EXCEPT !.document.importStatements = statements]

CompletionContext(triggerKind, triggerCharacter) ==
    Some([triggerKind |-> Some(triggerKind), triggerCharacter |-> triggerCharacter])

\* No context at all, an explicit invocation, a re-trigger for an incomplete list, and a
\* typed character: '.', ':', '*' and a character the server registered but ts does not allow.
CompletionContexts ==
    { None, CompletionContext(Invoked, None),
      CompletionContext(TriggerForIncompleteCompletions, None) }
    \cup { CompletionContext(TriggerCharacter, Some(c)) : c \in {".", ":", "*", "x"} }

\* Where the cursor is.
Places == {"style", "unmapped", "script", "importPath", "startTag", "markup"}

Component(events, slotLets, props) ==
    Some([events |-> events, slotLets |-> slotLets, props |-> props])
Part(name, type, doc) == [name |-> name, type |-> type, doc |-> doc]

\* A component with two events, a slot-let and a prop.
ComponentC ==
    Component(<<Part(<<"c", "l", "i", "c", "k">>, <<"M", "o", "u", "s", "e", "E", "v", "e", "n", "t">>, None), Part(<<"c", "h", "a", "n", "g", "e">>, <<"E", "v", "e", "n", "t">>, Some(<<"o", "n", " ", "c", "h", "a", "n", "g", "e">>))>>,
              <<Part(<<"i", "t", "e", "m">>, <<"s", "t", "r", "i", "n", "g">>, None)>>,
              <<Part(<<"t", "i", "t", "l", "e">>, <<"s", "t", "r", "i", "n", "g">>, None)>>)

Node(type, parentType) == Some([type |-> type, parentType |-> parentType])

\* A request at a place, nothing else read yet.
Request(document, position, completionContext, cancelled, place) ==
    [document |-> document,
     position |-> position,
     completionContext |-> completionContext,
     cancelled |-> cancelled,
     place |-> place,
     at |-> [inStyle |-> place = "style",
             isInGenerated |-> place \notin {"style", "unmapped"},
             isPartOfImportStatement |-> place = "importPath",
             inStartTag |-> place = "startTag",
             inHTMLStartTag |-> FALSE,
             svelteNode |-> None,
             textBefore |-> <<>>,
             textAfter |-> <<>>,
             wordRange |-> [start |-> offsetAt(position), end |-> offsetAt(position)],
             componentInfo |-> None,
             attributeContext |-> None,
             parserError |-> FALSE,
             jsDocTemplate |-> None,
             jsxAttribute |-> None],
     useNewTransformation |-> TRUE,
     entries |-> <<>>]

\* The requests before the completion context is read.  Without a file path nothing but the
\* style tag is looked at; isPartOfImportStatement is read for '.' alone.
Requests(documents, positions) ==
    { Request(d, p, None, k, w) :
        d \in documents, p \in positions, k \in BOOLEAN, w \in Places } \ 
    { Request(d, p, None, k, w) :
        d \in {x \in documents : ~IsSome(x.filePath)}, p \in positions, k \in BOOLEAN,
        w \in Places \ {"style", "script"} }

\* One computation is run on an explicit invocation and on ':'.
ContextsAt(place, scope) ==
    IF place = "importPath"
    THEN {CompletionContext(TriggerCharacter, Some("."))}
    ELSE IF scope = "all"
    THEN {CompletionContext(Invoked, None), CompletionContext(TriggerCharacter, Some(":"))}
    ELSE CompletionContexts

WithContext(rq, completionContext) == [rq EXCEPT !.completionContext = completionContext]

\* What getJsDocTemplateCompletion may answer.
JsDocTemplates ==
    { None,
      Some(CompletionListCreate(
          << [label |-> <<"/", "*", "*", " ", "*", "/">>, insertText |-> Some(<<"/", "*", "*", "\n", " ", "*", " ", "$", "0", "\n", " ", "*", "/">>),
              kind |-> Some(Lookup("CompletionItemKind", "Snippet")),
              commitCharacters |-> None, sortText |-> Some(<<"0">>), preselect |-> None,
              textEdit |-> None, additionalTextEdits |-> None, detail |-> None,
              documentation |-> None, data |-> None] >>, FALSE)) }

\* The node at the cursor and the text around it, by place.
Surroundings(place, scope) ==
    LET S(node, before, after, html) ==
            [svelteNode |-> node, textBefore |-> before, textAfter |-> after,
             inHTMLStartTag |-> html]
    IN  CASE place = "startTag" /\ scope = "core" ->
                { S(Node("InlineComponent", "Fragment"), <<"n">>, <<">", "x">>, FALSE) }
          [] place = "startTag" /\ scope # "core" ->
                { S(Node("Element", "Fragment"), <<" ">>, <<">", "x">>, TRUE),
                  S(Node("Element", "Fragment"), <<" ">>, <<" ", "x">>, TRUE),
                  S(Node("InlineComponent", "Fragment"), <<" ">>, <<" ", ">">>, FALSE),
                  S(Node("InlineComponent", "Fragment"), <<" ">>, <<">", "x">>, FALSE),
                  S(Node("InlineComponent", "Fragment"), <<" ">>, <<"/", ">">>, FALSE),
                  S(Node("InlineComponent", "Fragment"), <<"n">>, <<">", "x">>, FALSE),
                  S(Node("Attribute", "InlineComponent"), <<"=">>, <<"\"", "\"">>, FALSE) }
          [] place = "markup" /\ scope = "core" ->
                { S(Node("Text", "Element"), <<"a">>, <<"b", "c">>, FALSE) }
          [] place = "markup" /\ scope # "core" ->
                { S(Node("Text", "Element"), <<"a">>, <<"b", "c">>, FALSE),
                  S(Node("Text", "Script"), <<"a">>, <<"b", "c">>, FALSE),
                  S(Node("Element", "Fragment"), <<">">>, <<"<", "/">>, FALSE),
                  S(Node("MustacheTag", "Element"), <<"{">>, <<"a", "}">>, FALSE) }
          [] OTHER ->
                { S(None, <<"a">>, <<"b", "c">>, FALSE) }

WithSurroundings(rq, s) ==
    [rq EXCEPT !.at.svelteNode = s.svelteNode, !.at.textBefore = s.textBefore,
               !.at.textAfter = s.textAfter, !.at.inHTMLStartTag = s.inHTMLStartTag]

\* The word range, the component at the cursor and the parser's verdict.
Words(rq, scope) ==
    LET components == IF scope = "core" THEN {None, ComponentC}
                      ELSE {None, ComponentC, Component(<<>>, <<>>, <<>>)}
        parserErrors == IF scope = "core" THEN {FALSE} ELSE BOOLEAN
        longest == IF scope = "core" THEN 0 ELSE MaxWord
    IN
    { [wordRange |-> [start |-> offsetAt(rq.position) - n,
                      end |-> offsetAt(rq.position)],
       componentInfo |-> c,
       attributeContext |-> IF IsSome(c) THEN Some([inValue |-> v]) ELSE None,
       parserError |-> e] :
        n \in 0..Min(longest, rq.position.character),
        c \in IF /\ rq.place = "startTag"
                 /\ Get(rq.at.svelteNode).type \in {"InlineComponent", "Attribute"}
              THEN components ELSE {None},
        v \in IF scope = "core"
              THEN {IsSome(rq.at.svelteNode) /\ Get(rq.at.svelteNode).type = "Attribute"}
              ELSE BOOLEAN,
        e \in parserErrors }

WithWord(rq, w) ==
    [rq EXCEPT !.at.wordRange = w.wordRange, !.at.componentInfo = w.componentInfo,
               !.at.attributeContext = w.attributeContext, !.at.parserError = w.parserError]

WithEntries(rq, e) ==
    [rq EXCEPT !.entries = e.entries, !.at.jsxAttribute = e.jsxAttribute,
               !.useNewTransformation = e.useNewTransformation]

----------------------------------------------------------------------------
(* What the engine answers.                                                *)

Slack == 1          \* how far past the threshold the long answers go

\* The offset the engine is asked at: tsDoc.offsetAt(tsDoc.getGeneratedPosition(position)).
generatedOffset(position) == offsetAt(getGeneratedPosition(position))

\* A replacement span that ends at the cursor and covers the n characters before it.
SpanBefore(rq, n) ==
    LET reach == Min(n, rq.position.character)
    IN  Some([start |-> generatedOffset(rq.position) - reach, length |-> reach])

WordLength(rq) == rq.at.wordRange.end - rq.at.wordRange.start

\* A member, and a compiled component that is auto-imported from its file.
EntryFoo == RawEntry(<<"f", "o", "o">>, memberVariableElement, Some(<<>>), Some(<<"1", "1">>), None, None, None)
EntryC(rq) ==
    RawEntry(<<"C", "_", "_", "S", "v", "e", "l", "t", "e", "C", "o", "m", "p", "o", "n", "e", "n", "t", "_">>, "class", Some(<<"e", "x", "p", "o", "r", "t">>), Some(<<"1", "6">>), Some(<<".", "/", "C", ".", "s", "v", "e", "l", "t", "e">>),
             None, SpanBefore(rq, WordLength(rq)))
\* A global symbol, as the engine lists hundreds of them.
EntryGlobal == RawEntry(<<"w", "i", "n", "d", "o", "w">>, "var", Some(<<"d", "e", "c", "l", "a", "r", "e">>), Some(<<"1", "5">>), None, None, None)

\* More of what the engine lists: a compiled component already in scope (no source), a
\* shim of the generated code, a JSX attribute, a module path, a module path named like a
\* compiled component, an entry without sort text, and entries whose span starts left of
\* the word, with and without insert text.
EntryCLocal == RawEntry(<<"C", "_", "_", "S", "v", "e", "l", "t", "e", "C", "o", "m", "p", "o", "n", "e", "n", "t", "_">>, "alias", Some(<<>>), Some(<<"1", "1">>), None, None, None)
EntryShim ==
    RawEntry(<<"_", "_", "s", "v", "e", "l", "t", "e", "t", "s", "_", "1", "_", "a", "n", "y">>, "function", Some(<<"d", "e", "c", "l", "a", "r", "e">>), Some(<<"1", "5">>), None, None, None)
EntryJsx == RawEntry(<<"o", "n", "c", "l", "i", "c", "k">>, jsxAttribute, Some(<<>>), Some(<<"1", "1">>), None, None, None)
EntryPath == RawEntry(<<"l", "i", "b">>, scriptElement, Some(<<".", "t", "s">>), Some(<<"1", "1">>), None, None, None)
EntryCPath ==
    RawEntry(<<"C", "_", "_", "S", "v", "e", "l", "t", "e", "C", "o", "m", "p", "o", "n", "e", "n", "t", "_">>, scriptElement, Some(<<".", "s", "v", "e", "l", "t", "e">>), Some(<<"1", "1">>), None, None,
             None)
EntryUnsorted == RawEntry(<<"$", "$", "p", "r", "o", "p", "s">>, "var", None, None, None, None, None)
EntryWide(rq) ==
    RawEntry(<<"a", ".", "b">>, memberVariableElement, Some(<<>>), Some(<<"1", "1">>), None, Some(<<"[", "\"", "b", "\"", "]">>),
             SpanBefore(rq, WordLength(rq) + 1))
\* A module path for which the engine names the span to replace.
EntryPathSpan(rq) ==
    RawEntry(<<"l", "i", "b">>, scriptElement, Some(<<".", "t", "s">>), Some(<<"1", "1">>), None, None,
             SpanBefore(rq, WordLength(rq)))

CoreEntries(rq) == {EntryC(rq)}
AllEntries(rq) ==
    {EntryFoo, EntryC(rq), EntryCLocal, EntryShim, EntryJsx, EntryPath, EntryCPath,
     EntryUnsorted, EntryWide(rq), EntryPathSpan(rq)}

\* The sequences of at most n elements of S.
RECURSIVE SeqsUpTo(_, _)
SeqsUpTo(S, n) ==
    IF n = 0
    THEN {<<>>}
    ELSE LET shorter == SeqsUpTo(S, n - 1)
         IN  shorter \cup {Append(s, x) : s \in {t \in shorter : Len(t) = n - 1}, x \in S}

\* An answer of n entries: `first`, then global symbols.
Padded(first, n) == <<first>> \o [i \in 1..(n - 1) |-> EntryGlobal]

Answer(entries, attribute, useNewTransformation) ==
    [entries |-> entries, jsxAttribute |-> attribute,
     useNewTransformation |-> useNewTransformation]

\* A string-literal attribute around the offset whose prop has one literal type.
JsxAttributes(rq) ==
    { Some([start |-> generatedOffset(rq.position) - 1, width |-> w,
            propValues |-> << RawEntry(<<"b", "i", "g">>, "string", Some(<<>>), Some(<<"1", "1">>), None, None,
                                        None) >>]) : w \in {0, 2} }

\* Short answers over the core entries.
CoreAnswers(rq) ==
    { Answer(e, None, TRUE) : e \in SeqsUpTo(CoreEntries(rq), MaxEntries - 1) }

\* Short answers over all entries, long answers around the threshold, and for an empty
\* answer the prop-literal fallback of the old transformation.
AllAnswers(rq) ==
    { Answer(e, None, TRUE) : e \in SeqsUpTo(AllEntries(rq), MaxEntries) }
    \cup { Answer(Padded(e, n), None, TRUE) :
              e \in {EntryFoo, EntryGlobal},
              n \in MaxGlobalCompletions..(MaxGlobalCompletions + Slack) }
    \cup { Answer(<<>>, j, u) : j \in JsxAttributes(rq), u \in BOOLEAN }

----------------------------------------------------------------------------
(* The state machine.                                                      *)

NoCall == [op |-> "none"]

Init ==
    /\ lastCompletion = None
    /\ call = NoCall
    /\ prev = None
    /\ fixed = None
    /\ resolved = None

\* One call of getCompletions on rq: the cache is read and written, the call is recorded.
Handle(rq) ==
    \E out \in {getCompletions(lastCompletion, rq)} :
        /\ lastCompletion' = out.lastCompletion
        /\ call' = [op |-> "getCompletions", request |-> rq, before |-> lastCompletion,
                    result |-> out.result, site |-> out.site, queried |-> out.queried]
        /\ UNCHANGED <<prev, fixed, resolved>>

SiteOf(rq) == getCompletions(lastCompletion, rq).site

TriggerCharacterOf(rq) ==
    IF IsSome(rq.completionContext) THEN Get(rq.completionContext).triggerCharacter ELSE None

Answers(rq, scope) == IF scope = "core" THEN CoreAnswers(rq) ELSE AllAnswers(rq)

\* The import statements are looked at for the entries named like a compiled component.
ImportsFor(entries, scope) ==
    IF \E i \in 1..Len(entries) : isSvelteComponentImport(entries[i].name)
    THEN ImportLists(scope) ELSE {<<>>}

\* A call on one of `requests`, completed with the answers of the collaborators it reads.
Serve(requests, scope) ==
    \E base \in requests :
        IF SiteOf(base) \in {"style", "noFilePath"}
        THEN Handle(base)
        ELSE \E c \in ContextsAt(base.place, scope) :
            LET r0 == WithContext(base, c)
            IN  IF SiteOf(r0) \in {"invalidTrigger", "notInGenerated"}
                THEN Handle(r0)
                ELSE IF SiteOf(r0) = "reused"
                THEN \E i \in ImportLists(scope) :
                         IF TriggerCharacterOf(r0) = Some(":")
                         THEN \E s \in Surroundings(r0.place, scope) :
                              \E w \in Words(WithSurroundings(r0, s), scope) :
                                 Handle(WithImports(WithWord(WithSurroundings(r0, s), w), i))
                         ELSE Handle(WithImports(r0, i))
                ELSE IF TriggerCharacterOf(r0) = Some("*")
                THEN \E j \in JsDocTemplates : Handle([r0 EXCEPT !.at.jsDocTemplate = j])
                ELSE \E s \in Surroundings(r0.place, scope) :
                    LET r1 == WithSurroundings(r0, s)
                    IN  IF SiteOf(r1) \in {"htmlText", "cancelledBeforeMetadata"}
                        THEN Handle(r1)
                        ELSE \E w \in Words(r1, scope) :
                            LET r2 == WithWord(r1, w)
                            IN  IF SiteOf(r2) = "eventOrSlotLet"
                                THEN Handle(r2)
                                ELSE \E e \in Answers(r2, scope) :
                                     \E i \in ImportsFor(e.entries, scope) :
                                        Handle(WithImports(WithEntries(r2, e), i))

\* A client asks for completions while no call is running.
GetCompletions ==
    /\ call = NoCall
    /\ Serve(Requests(Documents, Cursors), "core")

\* The call's promise resolves; the provider is idle again.
Return ==
    /\ call # NoCall
    /\ call' = NoCall
    /\ UNCHANGED <<lastCompletion, prev, fixed, resolved>>

Next == GetCompletions \/ Return

Spec == Init /\ [][Next]_vars


----------------------------------------------------------------------------
(* One computation: a provider that was just constructed serves a single   *)
(* request, on everything the engine and the document may hold.            *)

FreshCursors == {Pos(MaxLine, MaxWord + 1)}

GetCompletionsFresh ==
    /\ call = NoCall
    /\ lastCompletion = None
    /\ Serve(Requests({Document(Some("a.svelte"), <<>>)}, FreshCursors), "all")

NextFresh == GetCompletionsFresh \/ Return

SpecFresh == Init /\ [][NextFresh]_vars

----------------------------------------------------------------------------
(* Consecutive requests: the provider remembers nothing of a request but   *)
(* the cache; prev keeps, for the properties of two requests in a row,     *)
(* what the request before the running one was and what it returned.       *)

Documents2 == { Document(Some("a.svelte"), <<>>), Document(None, <<>>) }

\* Cursors on one line, up to two columns apart.
NearCursors == {Pos(0, c) : c \in 0..(MaxChar - 2)}

GetCompletionsNext ==
    /\ call = NoCall
    /\ Serve(Requests(Documents2, NearCursors), "core")

ReturnNext ==
    /\ call # NoCall
    /\ prev' = Some([filePath |-> call.request.document.filePath,
                     document |-> call.request.document,
                     position |-> call.request.position,
                     result |-> call.result,
                     site |-> call.site])
    /\ call' = NoCall
    /\ UNCHANGED <<lastCompletion, fixed, resolved>>

NextConsecutive == GetCompletionsNext \/ ReturnNext

SpecConsecutive == Init /\ [][NextConsecutive]_vars

----------------------------------------------------------------------------
(* fixTextEditRange on its own: the inputs are drawn first, then the       *)
(* method is applied.                                                      *)

\* An item as the translator leaves it, with the text edit under test.
EditItem(textEdit) ==
    [label |-> <<"a", ".", "b", "c">>, insertText |-> None, kind |-> None, commitCharacters |-> None,
     sortText |-> Some(<<"1", "1">>), preselect |-> None, textEdit |-> textEdit,
     additionalTextEdits |-> None, detail |-> None, documentation |-> None, data |-> None]

\* Where a mapped edit may start: a position of the document, or the unmapped position.
EditStarts == Positions \cup {Pos(-1, -1)}
EditTexts == {Substring(<<"a", ".", "b", "c">>, 0, n) : n \in 0..(MaxWord + 2)}
EditItems ==
    {EditItem(None)}
    \cup { EditItem(Some(TextEditReplace([start |-> s, end |-> Pos(s.line, s.character + n)],
                                         t))) :
              s \in EditStarts, n \in 0..MaxWord, t \in EditTexts }

InitFix ==
    /\ lastCompletion = None
    /\ call = NoCall
    /\ prev = None
    /\ resolved = None
    /\ fixed \in { [wordRangePosition |-> w, completionItem |-> i, returned |-> None] :
                      w \in Positions, i \in EditItems }

FixTextEditRange ==
    /\ fixed.returned = None
    /\ fixed' = [fixed EXCEPT
                   !.returned = Some(fixTextEditRange(fixed.wordRangePosition,
                                                      fixed.completionItem))]
    /\ UNCHANGED <<lastCompletion, call, prev, resolved>>

NextFix == FixTextEditRange

SpecFix == InitFix /\ [][NextFix]_vars

----------------------------------------------------------------------------
(* resolveCompletion.  It reads and writes nothing of the provider; the    *)
(* item it is handed is the client's copy of one that getCompletions       *)
(* returned.                                                               *)

\* ts.sys.newLine
newLine == <<"\n">>

\* const beginOfDocumentRange
beginOfDocumentRange == [start |-> Pos(0, 0), end |-> Pos(0, 0)]

\* a || b on two optional offsets: 0 is falsy.
OrElse(a, b) == IF IsSome(a) /\ Get(a) # 0 THEN a ELSE b

StartOf(tagInfo) == IF IsSome(tagInfo) THEN Some(Get(tagInfo).start) ELSE None

\* isInTag(position, tagInfo) and isInScript(position, document) of the document utilities:
\* the position lies within the tag's content.
isInTag(position, tagInfo) ==
    /\ IsSome(tagInfo)
    /\ Get(tagInfo).start <= offsetAt(position)
    /\ offsetAt(position) <= Get(tagInfo).end
isInScript(position, doc) ==
    isInTag(position, doc.scriptInfo) \/ isInTag(position, doc.moduleScriptInfo)

\* fixUserPreferencesForSvelteComponentImport(userPreferences)
fixUserPreferencesForSvelteComponentImport(userPreferences) ==
    IF userPreferences.importModuleSpecifierEnding = "js"
    THEN [userPreferences EXCEPT !.importModuleSpecifierEnding = "index"]
    ELSE userPreferences

\* private getCompletionDocument(compDetail); ts.displayPartsToString joins the parts and
\* getMarkdownDocumentation's answer is compDetail.markdown.
getCompletionDocument(compDetail) ==
    LET name == changeSvelteComponentName(Flatten(compDetail.displayParts))
        detail == IF IsSome(compDetail.sourceDisplay)
                  THEN <<"A", "u", "t", "o", " ", "i", "m", "p", "o", "r", "t", " ", "f", "r", "o", "m", " ">> \o Flatten(Get(compDetail.sourceDisplay))
                       \o <<"\n">> \o name
                  ELSE name
        documentation == IF Truthy(compDetail.markdown)
                         THEN Some([value |-> Get(compDetail.markdown), kind |-> "markdown"])
                         ELSE None
    IN  [documentation |-> documentation, detail |-> detail]

\* private changeComponentImport(importText, actionTriggeredInScript)
changeComponentImport(importText, actionTriggeredInScript) ==
    LET changedName == changeSvelteComponentName(importText)
    IN  IF importText # changedName \/ ~actionTriggeredInScript
        THEN ReplaceFirst(changedName, <<" ", "t", "y", "p", "e", " ">>, <<" ">>)
        ELSE importText

\* private offsetLinesAndMovetoStartOfLine({start, end}, offsetLines)
offsetLinesAndMovetoStartOfLine(range, offsetLines) ==
    [start |-> Pos(range.start.line + offsetLines, 0),
     end |-> Pos(range.end.line + offsetLines, 0)]

\* private mapRangeForNewImport(snapshot, virtualRange)
mapRangeForNewImport(virtualRange) ==
    offsetLinesAndMovetoStartOfLine(
        mapRangeToOriginal(offsetLinesAndMovetoStartOfLine(virtualRange, -1)), 1)

\* codeActionChangeToTextEdit(doc, snapshot, change, isImport, originalTriggerPosition); the
\* snapshot's script tags are the document's, and language is the configured
\* svelte.defaultScriptLanguage.
codeActionChangeToTextEdit(doc, change, isImport, originalTriggerPosition, language) ==
    LET changed == changeComponentImport(change.newText,
                                         isInScript(originalTriggerPosition, doc))
        scriptTagInfo == IF IsSome(doc.scriptInfo) THEN doc.scriptInfo ELSE doc.moduleScriptInfo
        scriptLang == IF language = "none"
                      THEN <<>>
                      ELSE <<" ", "l", "a", "n", "g", "=", "\"">> \o language \o <<"\"">>
        span == change.span
        virtualRange == convertRange(span)
        isNewImport == isImport /\ virtualRange.start.character = 0
        mapped == IF isNewImport /\ virtualRange.start.line > 1
                  THEN mapRangeForNewImport(virtualRange)
                  ELSE mapRangeToOriginal(virtualRange)
        range ==
            IF \/ mapped.start.line = -1
               \/ mapped.start.line = 0 /\ mapped.start.character <= 1 /\ span.length = 0
               \/ ~isInScript(mapped.start, doc)
            THEN convertRange(
                    [start |->
                        Get(IF isInTag(originalTriggerPosition, doc.scriptInfo)
                            THEN OrElse(StartOf(doc.scriptInfo), StartOf(scriptTagInfo))
                            ELSE IF isInTag(originalTriggerPosition, doc.moduleScriptInfo)
                            THEN OrElse(StartOf(doc.moduleScriptInfo), StartOf(scriptTagInfo))
                            ELSE StartOf(scriptTagInfo)),
                     length |-> span.length])
            ELSE mapped
        editOffset == offsetAt(range.start)
        newText ==
            \* no text of the model starts with a carriage return
            IF /\ \/ Some(editOffset) = StartOf(doc.scriptInfo)
                  \/ Some(editOffset) = StartOf(doc.moduleScriptInfo)
               /\ ~StartsWith(changed, <<"\n">>)
            THEN newLine \o changed
            ELSE changed
    IN  IF ~IsSome(scriptTagInfo)
        THEN TextEditReplace(beginOfDocumentRange,
                             <<"<", "s", "c", "r", "i", "p", "t">> \o scriptLang \o <<">">> \o newLine \o changed
                             \o <<"<", "/", "s", "c", "r", "i", "p", "t", ">">> \o newLine)
        ELSE TextEditReplace(range, newText)

\* A variant of codeActionChangesToTextEdit that translates the first text change alone.
codeActionChangesToTextEditFirst(doc, changes, isImport, originalTriggerPosition, language) ==
    [i \in 1..Min(1, Len(changes.textChanges)) |->
        codeActionChangeToTextEdit(doc, changes.textChanges[i], isImport,
                                   originalTriggerPosition, language)]

\* private codeActionChangesToTextEdit(doc, snapshot, changes, isImport,
\* originalTriggerPosition)
codeActionChangesToTextEdit(doc, changes, isImport, originalTriggerPosition, language) ==
    [i \in 1..Len(changes.textChanges) |->
        codeActionChangeToTextEdit(doc, changes.textChanges[i], isImport,
                                   originalTriggerPosition, language)]

\* async resolveCompletion(document, completionItem, cancellationToken).  rs carries the
\* arguments and what the collaborators answer: rs.userPreferences, rs.detail (what
\* lang.getCompletionEntryDetails returns) and rs.defaultScriptLanguage.  The value is the
\* item returned, the query made of the engine (if any) and the edits appended.
resolveCompletion(rs) ==
    LET document == rs.document
        completionItem == rs.completionItem
        comp == completionItem.data
        entry == Get(comp).entry
        errorPreventingUserPreferences ==
            IF IsSome(entry.source) /\ EndsWith(Get(entry.source), <<".", "s", "v", "e", "l", "t", "e">>)
            THEN fixUserPreferencesForSvelteComponentImport(rs.userPreferences)
            ELSE rs.userPreferences
        query == [fileName |-> Get(document.filePath),
                  position |-> offsetAt(getGeneratedPosition(Get(comp).position)),
                  entryName |-> entry.name,
                  source |-> entry.source,
                  preferences |-> errorPreventingUserPreferences]
        detail == rs.detail
        described ==
            IF IsSome(detail)
            THEN [completionItem EXCEPT
                    !.detail = Some(getCompletionDocument(Get(detail)).detail),
                    !.documentation = getCompletionDocument(Get(detail)).documentation]
            ELSE completionItem
        actions == IF IsSome(detail) THEN Get(detail).codeActions ELSE None
        isImport == IsSome(detail) /\ Truthy(Get(detail).source)
        edit == Flatten([a \in 1..Len(Get(actions)) |->
                    Flatten([c \in 1..Len(Get(actions)[a].changes) |->
                        codeActionChangesToTextEdit(document, Get(actions)[a].changes[c],
                                                    isImport, Get(comp).position,
                                                    rs.defaultScriptLanguage)])])
    IN  IF ~IsSome(comp) \/ ~IsSome(document.filePath) \/ rs.cancelled
        THEN [item |-> completionItem, query |-> None, edit |-> None]
        ELSE IF IsSome(actions)
        THEN [item |-> [described EXCEPT
                          !.additionalTextEdits =
                              Some((IF IsSome(@) THEN Get(@) ELSE <<>>) \o edit)],
              query |-> Some(query), edit |-> Some(edit)]
        ELSE [item |-> described, query |-> Some(query), edit |-> None]

----------------------------------------------------------------------------
(* The resolve requests.                                                   *)

MaxChanges == 2     \* the most text changes the code actions of a detail carry

ResolveDocument(filePath, scriptInfo, moduleScriptInfo) ==
    [filePath |-> filePath, scriptInfo |-> scriptInfo, moduleScriptInfo |-> moduleScriptInfo]

\* <script context="module"> on the first line and <script> on the second.
ModuleTag == Some([start |-> offsetAt(Pos(0, 1)), end |-> offsetAt(Pos(0, MaxChar))])
ScriptTag == Some([start |-> offsetAt(Pos(1, 1)), end |-> offsetAt(Pos(1, MaxChar))])

ResolveDocuments ==
    { ResolveDocument(Some("a.svelte"), s, m) : s \in {None, ScriptTag}, m \in {None, ModuleTag} }

\* Where completion was triggered: in the markup, in the module script, in the script.
TriggerPositions == {Pos(0, 0), Pos(0, 2), Pos(1, 2)}

\* Items as getCompletions returns them: of a member, of a compiled component, of a member
\* whose edit was split, and of an event.
ItemOf(entry, position) ==
    Get(toCompletionItem(Document(Some("a.svelte"), <<>>), entry,
                         Lookup("pathToUrl", "a.svelte"), position, {}))
EntryCAuto ==
    RawEntry(<<"C", "_", "_", "S", "v", "e", "l", "t", "e", "C", "o", "m", "p", "o", "n", "e", "n", "t", "_">>, "class", Some(<<"e", "x", "p", "o", "r", "t">>), Some(<<"1", "6">>), Some(<<".", "/", "C", ".", "s", "v", "e", "l", "t", "e">>),
             None, None)
SplitItem(position) ==
    [ItemOf(EntryFoo, position) EXCEPT
        !.additionalTextEdits =
            Some(<<TextEditReplace([start |-> Pos(0, 0), end |-> Pos(0, 1)], <<"a", ".">>)>>)]
EventItem ==
    componentInfoToCompletionEntry(Part(<<"c", "l", "i", "c", "k">>, <<"M", "o", "u", "s", "e", "E", "v", "e", "n", "t">>, None), <<"o", "n", ":">>,
                                   Some(Lookup("CompletionItemKind", "Event")),
                                   [start |-> 0, end |-> 0])

UserPreferences == { [importModuleSpecifierEnding |-> e] : e \in {"js", "auto"} }

Detail(displayParts, sourceDisplay, markdown, source, codeActions) ==
    Some([displayParts |-> displayParts, sourceDisplay |-> sourceDisplay,
          markdown |-> markdown, source |-> source, codeActions |-> codeActions])

\* What the engine may tell about an entry, without code actions.
PlainDetails ==
    {None}
    \cup { Detail(d, s, m, src, None) :
              d \in { <<<<"f", "o", "o">>>>, <<<<"c", "l", "a", "s", "s", " ">>, <<"C", "_", "_", "S", "v", "e", "l", "t", "e", "C", "o", "m", "p", "o", "n", "e", "n", "t", "_">>>> },
              s \in { None, Some(<<<<".", "/", "C", ".", "s", "v", "e", "l", "t", "e">>>>) },
              m \in { None, Some(<<>>), Some(<<"d", "o", "c">>) },
              src \in { None, Some(<<".", "/", "C", ".", "s", "v", "e", "l", "t", "e">>) } }

\* The text changes of an auto-import: a new import of a compiled component, a type-only
\* import, and a name added to an import that exists.
ChangeTexts ==
    { <<"i", "m", "p", "o", "r", "t", " ", "C", "_", "_", "S", "v", "e", "l", "t", "e", "C", "o", "m", "p", "o", "n", "e", "n", "t", "_", " ", "f", "r", "o", "m", " ", "\"", ".", "/", "C", ".", "s", "v", "e", "l", "t", "e", "\"", "\n">>,
      <<"i", "m", "p", "o", "r", "t", " ", "t", "y", "p", "e", " ", "{", " ", "x", " ", "}", " ", "f", "r", "o", "m", " ", "\"", "x", "\"", "\n">>,
      <<"\n", " ", "x">> }

GeneratedOffset(line, character) == offsetAt(Pos(line, character))

\* The spans of the generated document a change may have: on a synthetic leading line, at the
\* start of a line of the script, within one, and at the start of the first original line.
Spans(doc) ==
    IF ~IsSome(doc.scriptInfo) /\ ~IsSome(doc.moduleScriptInfo)
    THEN { [start |-> 0, length |-> 0] }
    ELSE { [start |-> GeneratedOffset(0, 0), length |-> 0],
           [start |-> GeneratedOffset(GeneratedLineShift + 1, 0), length |-> 0],
           [start |-> GeneratedOffset(GeneratedLineShift + 1, 2), length |-> 0],
           [start |-> GeneratedOffset(GeneratedLineShift + 1, 2), length |-> 1],
           [start |-> GeneratedOffset(GeneratedLineShift, 0), length |-> 0],
           [start |-> GeneratedOffset(GeneratedLineShift, 0), length |-> 1] }

Changes(doc) == { [span |-> s, newText |-> t] : s \in Spans(doc), t \in ChangeTexts }

CodeAction(changes) == [changes |-> changes]
FileTextChanges(textChanges) == [textChanges |-> textChanges]

\* The code actions that carry the text changes cs: in one file of one action, or with the
\* first change apart, in a file or in an action of its own; and for no change at all, no
\* action, an action without a file, and a file without a change.
CodeActions(cs) ==
    IF cs = <<>>
    THEN { <<>>, <<CodeAction(<<>>)>>, <<CodeAction(<<FileTextChanges(<<>>)>>)>> }
    ELSE { <<CodeAction(<<FileTextChanges(cs)>>)>> }
         \cup IF Len(cs) < 2
              THEN {}
              ELSE { <<CodeAction(<<FileTextChanges(<<Head(cs)>>),
                                    FileTextChanges(Tail(cs))>>)>>,
                     <<CodeAction(<<FileTextChanges(<<Head(cs)>>)>>),
                       CodeAction(<<FileTextChanges(Tail(cs))>>)>> }

\* The lists of at most n changes: any change first, then additions to an import.
RECURSIVE ChangeLists(_, _)
ChangeLists(doc, n) ==
    IF n = 0
    THEN {<<>>}
    ELSE LET shorter == ChangeLists(doc, n - 1)
         IN  shorter
             \cup { Append(cs, c) :
                      cs \in {l \in shorter : Len(l) = n - 1},
                      c \in IF n = 1
                            THEN Changes(doc)
                            ELSE {d \in Changes(doc) : d.newText = <<"\n", " ", "x">>} }

ActionDetails(doc) ==
    { Detail(<<<<"f", "o", "o">>>>, None, None, src, Some(a)) :
        src \in { None, Some(<<".", "/", "C", ".", "s", "v", "e", "l", "t", "e">>) },
        a \in UNION { CodeActions(cs) : cs \in ChangeLists(doc, MaxChanges) } }

ResolveRequest(document, completionItem, cancelled, userPreferences, detail, language) ==
    [document |-> document, completionItem |-> completionItem, cancelled |-> cancelled,
     userPreferences |-> userPreferences, detail |-> detail,
     defaultScriptLanguage |-> language]

AutoPreferences == [importModuleSpecifierEnding |-> "auto"]

\* The requests that return at once (no payload, no file path, cancelled), those that come
\* to describe the item, and those that come to translate code actions.
ResolveRequests(documents) ==
    { ResolveRequest(ResolveDocument(f, None, None), i, k, AutoPreferences, None, "none") :
        f \in {Some("a.svelte"), None},
        i \in {EventItem, ItemOf(EntryFoo, Pos(0, 0))},
        k \in BOOLEAN }
    \cup { ResolveRequest(ResolveDocument(Some("a.svelte"), None, None), ItemOf(e, Pos(0, 0)),
                          FALSE, u, d, "none") :
              e \in {EntryFoo, EntryCAuto}, u \in UserPreferences, d \in PlainDetails }
    \cup UNION { { ResolveRequest(doc, i, FALSE, AutoPreferences, d, l) :
                      i \in {ItemOf(EntryCAuto, p), SplitItem(p)},
                      d \in ActionDetails(doc),
                      l \in IF IsSome(doc.scriptInfo) \/ IsSome(doc.moduleScriptInfo)
                            THEN {"none"} ELSE {"none", "ts"} } :
                 doc \in documents, p \in TriggerPositions }

InitResolve ==
    /\ lastCompletion = None
    /\ call = NoCall
    /\ prev = None
    /\ fixed = None
    /\ resolved \in { [request |-> rs, returned |-> None] : rs \in ResolveRequests(ResolveDocuments) }

ResolveCompletion ==
    /\ resolved.returned = None
    /\ resolved' = [resolved EXCEPT !.returned = Some(resolveCompletion(resolved.request))]
    /\ UNCHANGED <<lastCompletion, call, prev, fixed>>

NextResolve == ResolveCompletion

SpecResolve == InitResolve /\ [][NextResolve]_vars

----------------------------------------------------------------------------
(* Properties.                                                             *)

\* A call of getCompletions has run and has not returned yet.
Called == call # NoCall

TriggerKindOf(rq) ==
    IF IsSome(rq.completionContext) THEN Get(rq.completionContext).triggerKind ELSE None

ItemsOf(result) == Get(result).items
LabelsOf(items) == [i \in 1..Len(items) |-> items[i].label]

\* An item that carries the raw entry it was translated from.
IsEngineItem(item) == IsSome(item.data)
EntryOf(item) == Get(item.data).entry

\* The cache as the call found it, with the request's position.
Moved == Some([Get(call.before) EXCEPT !.position = call.request.position])

\* The labels of the metadata items and of the prop items of the component at the cursor.
InValue(rq) ==
    /\ IsSome(rq.at.componentInfo)
    /\ IsSome(rq.at.attributeContext)
    /\ Get(rq.at.attributeContext).inValue
ComponentLabels(rq) ==
    IF ~IsSome(rq.at.componentInfo) \/ InValue(rq)
    THEN <<>>
    ELSE [i \in 1..Len(Get(rq.at.componentInfo).events) |->
             <<"o", "n", ":">> \o Get(rq.at.componentInfo).events[i].name]
         \o [i \in 1..Len(Get(rq.at.componentInfo).slotLets) |->
                <<"l", "e", "t", ":">> \o Get(rq.at.componentInfo).slotLets[i].name]
PropLabels(rq) ==
    IF ~IsSome(rq.at.componentInfo) \/ InValue(rq)
    THEN <<>>
    ELSE [i \in 1..Len(Get(rq.at.componentInfo).props) |->
             Get(rq.at.componentInfo).props[i].name]

(* C1 ---------------------------------------------------------------------*)

\* The running request follows one on the same document and line, less than two columns
\* away, and is a re-trigger for an incomplete list.
Consecutive ==
    /\ Called
    /\ IsSome(prev)
    /\ Get(prev).filePath = call.request.document.filePath
    /\ Get(prev).position.line = call.request.position.line
    /\ Abs(Get(prev).position.character - call.request.position.character) < 2
    /\ TriggerKindOf(call.request) = Some(TriggerForIncompleteCompletions)

\* The request returned what the one before returned, without a query of the engine, and
\* changed nothing but the position the cache stores.
ServedSameList ==
    /\ call.result = Get(prev).result
    /\ ~call.queried
    /\ IsSome(call.before)
    /\ lastCompletion = Moved

\* C1 as stated: of two consecutive requests on the same document and line, less than two
\* columns apart, the second being a re-trigger for an incomplete list, the second returns the
\* list of the first without a query and only moves the cache's position, whatever the first
\* returned and by whichever path.
C1_ConsecutiveRetriggerReuses == Consecutive => ServedSameList

\* C1 amended: the same, provided the first request returned a list that it computed and
\* stored or that the cache served, and the second request's cursor is not in a style tag.
C1_RetriggerReusesStoredList ==
    (Consecutive /\ Get(prev).site \in {"computed", "reused"} /\ ~call.request.at.inStyle)
        => ServedSameList

\* C1: a list was computed and stored, and the next request, one column away, is served it.
C1_StoredListServedAgain ==
    /\ Consecutive
    /\ Get(prev).site = "computed"
    /\ call.site = "reused"
    /\ Get(prev).position # call.request.position
    /\ Len(ItemsOf(call.result)) > 0

(* C2 ---------------------------------------------------------------------*)

\* C2 as stated: a request whose position is not in the generated region returns null, in
\* every state of the cache.
C2_OutsideGeneratedIsNull ==
    (Called /\ ~call.request.at.isInGenerated) => call.result = None

\* C2 amended: a request whose position is not in the generated region returns null unless
\* it is served from the cache.
C2_OutsideGeneratedMissIsNull ==
    (Called /\ ~call.request.at.isInGenerated /\ call.site # "reused") => call.result = None

\* C2: the cache holds a list of the document, the lookup misses and the position is not in
\* the generated region.
C2_OutsideGeneratedAfterMiss ==
    /\ Called
    /\ call.site = "notInGenerated"
    /\ IsSome(call.before)
    /\ Some(Get(call.before).key) = call.request.document.filePath

(* C3 ---------------------------------------------------------------------*)

\* The list holds the event and slot-let items of the component at the cursor, in order, and
\* no item of an engine entry.
OnlyMetadata(rq, result) ==
    /\ LabelsOf(ItemsOf(result)) = ComponentLabels(rq)
    /\ \A i \in 1..Len(ItemsOf(result)) : ~IsEngineItem(ItemsOf(result)[i])

\* C3 as stated: a request triggered by ':' that returns a list returns exactly the metadata
\* items of the component at the cursor, in every state of the cache.
C3_ColonReturnsMetadataAlone ==
    (Called /\ TriggerCharacterOf(call.request) = Some(":") /\ IsSome(call.result))
        => OnlyMetadata(call.request, call.result)

\* C3 amended: a request triggered by ':' that is not served from the cache and returns a
\* list returns exactly the metadata items of the component at the cursor, and the engine is
\* not queried.
C3_ColonMissReturnsMetadataAlone ==
    (/\ Called
     /\ TriggerCharacterOf(call.request) = Some(":")
     /\ IsSome(call.result)
     /\ call.site # "reused")
        => (OnlyMetadata(call.request, call.result) /\ ~call.queried)

\* C3: ':' on a component with two events and a slot-let, while the cache holds a list that
\* the request may not reuse.
C3_ColonOnComponent ==
    /\ Called
    /\ TriggerCharacterOf(call.request) = Some(":")
    /\ call.site = "eventOrSlotLet"
    /\ IsSome(call.before)
    /\ Len(ItemsOf(call.result)) = 3

(* C4 ---------------------------------------------------------------------*)

\* C4 as stated: a request whose token is cancelled when it starts returns null, for every
\* trigger kind and character and in every state of the cache.
C4_CancelledIsNull == (Called /\ call.request.cancelled) => call.result = None

\* C4 amended: a request whose token is cancelled when it starts returns null unless it is
\* served from the cache or, triggered by '*', gets as far as the doc-comment template: both
\* return before the token is first read.
C4_CancelledMissIsNull ==
    (Called /\ call.request.cancelled /\ call.site \notin {"reused", "jsDoc"})
        => call.result = None

\* C4: a cancelled request misses the cache and is stopped at the first test of the token.
C4_CancelledAfterMiss ==
    /\ Called
    /\ call.request.cancelled
    /\ call.site = "cancelledBeforeMetadata"
    /\ IsSome(call.before)

(* C5 ---------------------------------------------------------------------*)

\* C5 as stated: a request whose token is cancelled when it starts leaves the cache exactly
\* as it was.
C5_CancelledLeavesCache == (Called /\ call.request.cancelled) => lastCompletion = call.before

\* C5 amended: a request whose token is cancelled when it starts stores no list: the cache
\* is as it was when the trigger gate rejects the request, has the position moved when the
\* request is served from it, and is empty otherwise.
C5_CancelledStoresNothing ==
    (Called /\ call.request.cancelled)
        => CASE call.site \in {"style", "noFilePath", "invalidTrigger"} ->
                    lastCompletion = call.before
             [] call.site = "reused" -> lastCompletion = Moved
             [] OTHER -> lastCompletion = None

\* C5: a cancelled request found a list in the cache and left the cache empty.
C5_CancelledClearedCache ==
    /\ Called
    /\ call.request.cancelled
    /\ IsSome(call.before)
    /\ lastCompletion = None

(* C6 ---------------------------------------------------------------------*)

\* What a client sorts an item by: its sort text, and its label when it has none.
SortKey(item) == IF IsSome(item.sortText) THEN Get(item.sortText) ELSE item.label

\* The pairs of a metadata item and an engine-derived item of a computed list.
MixedPairs(items) ==
    { p \in (1..Len(items)) \X (1..Len(items)) :
        ~IsEngineItem(items[p[1]]) /\ IsEngineItem(items[p[2]]) }

\* C6 as stated: in a list that a fresh computation returns, every metadata item sorts
\* before every engine-derived item by sort key, whatever sort text the entries carry (none
\* included) and for compiled components too.
C6_MetadataSortsFirst ==
    (Called /\ call.site = "computed")
        => \A p \in MixedPairs(ItemsOf(call.result)) :
              StrLess(SortKey(ItemsOf(call.result)[p[1]]), SortKey(ItemsOf(call.result)[p[2]]))

\* C6 amended: in a list that a fresh computation returns, every metadata item has the sort
\* text '-1'; the item of a compiled component has the same '-1' and ties with it; any other
\* engine-derived item keeps its entry's sort text, so that a metadata item sorts before it
\* exactly when that sort text (the label, when there is none) is greater than '-1'.
C6_MetadataSortKey ==
    (Called /\ call.site = "computed")
        => \A p \in MixedPairs(ItemsOf(call.result)) :
              LET metadata == ItemsOf(call.result)[p[1]]
                  derived == ItemsOf(call.result)[p[2]]
                  isSvelteComp == isSvelteComponentImport(EntryOf(derived).name)
              IN  /\ metadata.sortText = Some(<<"-", "1">>)
                  /\ derived.sortText =
                        IF isSvelteComp THEN Some(<<"-", "1">>) ELSE EntryOf(derived).sortText
                  /\ StrLess(SortKey(metadata), SortKey(derived))
                        <=> /\ ~isSvelteComp
                            /\ StrLess(<<"-", "1">>, IF IsSome(EntryOf(derived).sortText)
                                             THEN Get(EntryOf(derived).sortText)
                                             ELSE derived.label)

\* C6: a computed list with a metadata item, the item of a compiled component and an item
\* without sort text.
C6_MixedList ==
    /\ Called
    /\ call.site = "computed"
    /\ \E p \in MixedPairs(ItemsOf(call.result)) :
          isSvelteComponentImport(EntryOf(ItemsOf(call.result)[p[2]]).name)
    /\ \E p \in MixedPairs(ItemsOf(call.result)) :
          ~IsSome(ItemsOf(call.result)[p[2]].sortText)

(* C7 ---------------------------------------------------------------------*)

\* C7: for an item with a text edit and any anchor, after fixTextEditRange the edit does
\* not start left of the anchor's column, and if a prefix was taken off its text, the text
\* of the additional edit followed by the text of the edit is the text first proposed.
C7_FixedEditStartsAtAnchor ==
    (fixed.returned # None /\ IsSome(fixed.completionItem.textEdit))
        => LET before == Get(fixed.completionItem.textEdit)
               after == Get(Get(fixed.returned).textEdit)
               additional == Get(fixed.returned).additionalTextEdits
           IN  /\ after.range.start.character >= fixed.wordRangePosition.character
               /\ (after.newText # before.newText \/ IsSome(additional))
                    => /\ IsSome(additional)
                       /\ Len(Get(additional)) = 1
                       /\ Get(additional)[1].newText \o after.newText = before.newText

\* C7: an edit that starts left of the anchor was split in two texts that are not empty.
C7_EditSplit ==
    /\ fixed.returned # None
    /\ IsSome(fixed.completionItem.textEdit)
    /\ Get(fixed.completionItem.textEdit).range.start.character
          < fixed.wordRangePosition.character
    /\ IsSome(Get(fixed.returned).additionalTextEdits)
    /\ Get(Get(fixed.returned).additionalTextEdits)[1].newText # <<>>
    /\ Get(Get(fixed.returned).textEdit).newText # <<>>

(* C8 ---------------------------------------------------------------------*)

\* The character before the cursor and the one after it.
AroundCursor(rq) == rq.at.textBefore \o Substring(rq.at.textAfter, 0, 1)

InComponentTag(rq) ==
    /\ IsSome(rq.at.svelteNode)
    /\ Get(rq.at.svelteNode).type = "InlineComponent"
    /\ AroundCursor(rq) \in {<<" ", " ">>, <<" ", ">">>, <<" ", "/">>}

\* C8: when the engine returns more than 500 entries at a component whose tag has one of
\* the three boundaries around the cursor, the list is the metadata items and one item per
\* declared prop (none in an attribute value) and holds no engine entry; with 500 entries
\* or fewer a list is returned and every entry that is valid and translated is in it.
C8_LongAnswerIsNarrowed ==
    (Called /\ call.queried)
        => LET rq == call.request
               items == ItemsOf(call.result)
           IN  /\ (Len(rq.entries) > 500 /\ InComponentTag(rq))
                    => /\ IsSome(call.result)
                       /\ LabelsOf(items) = ComponentLabels(rq) \o PropLabels(rq)
                       /\ \A i \in 1..Len(items) : ~IsEngineItem(items[i])
               /\ (Len(rq.entries) > 0 /\ Len(rq.entries) <= 500)
                    => /\ IsSome(call.result)
                       /\ \A e \in 1..Len(rq.entries) :
                             (/\ isValidCompletion(rq.at.inHTMLStartTag, rq.entries[e])
                              /\ IsSome(toCompletionItem(
                                     rq.document, rq.entries[e],
                                     Lookup("pathToUrl", Get(rq.document.filePath)),
                                     rq.position, getExistingImports(rq.document))))
                                => \E i \in 1..Len(items) :
                                      /\ IsEngineItem(items[i])
                                      /\ EntryOf(items[i]) = rq.entries[e]

\* C8: 501 entries at a component with two events, a slot-let and a prop are narrowed to
\* four items.
C8_Narrowed ==
    /\ Called
    /\ call.queried
    /\ Len(call.request.entries) = 501
    /\ InComponentTag(call.request)
    /\ Len(ItemsOf(call.result)) = 4

(* C9 ---------------------------------------------------------------------*)

\* resolveCompletion has asked the engine about an item of a document without a script tag
\* and without a module script tag, and the detail carries code actions.
ResolvedWithoutScript ==
    /\ resolved.returned # None
    /\ IsSome(Get(resolved.returned).query)
    /\ IsSome(resolved.request.detail)
    /\ IsSome(Get(resolved.request.detail).codeActions)
    /\ ~IsSome(resolved.request.document.scriptInfo)
    /\ ~IsSome(resolved.request.document.moduleScriptInfo)

\* The edits that resolveCompletion appended, and the text changes of the code actions.
Appended == Get(Get(resolved.returned).edit)
TextChangesOf(rs) ==
    LET actions == Get(Get(rs.detail).codeActions)
    IN  Flatten([a \in 1..Len(actions) |->
            Flatten([c \in 1..Len(actions[a].changes) |->
                actions[a].changes[c].textChanges])])

ZeroRange == [start |-> [line |-> 0, character |-> 0], end |-> [line |-> 0, character |-> 0]]

\* A script tag around a change's text, its compiled-component name rewritten and ' type '
\* taken out.
Wrapper(rs, text) ==
    <<"<", "s", "c", "r", "i", "p", "t">>
    \o (IF rs.defaultScriptLanguage = "none"
        THEN <<>> ELSE <<" ", "l", "a", "n", "g", "=", "\"">> \o rs.defaultScriptLanguage \o <<"\"">>)
    \o <<">", "\n">> \o ReplaceFirst(changeSvelteComponentName(text), <<" ", "t", "y", "p", "e", " ">>, <<" ">>) \o <<"<", "/", "s", "c", "r", "i", "p", "t", ">", "\n">>

\* C9 as stated: without a script tag, the edits that resolve appends are a single edit, an
\* insertion at (0,0) of a complete script tag, whatever the number of code actions and of
\* text changes.
C9_NoScriptSingleWrapper ==
    ResolvedWithoutScript
        => /\ Len(Appended) = 1
           /\ Appended[1].range = ZeroRange
           /\ StartsWith(Appended[1].newText, <<"<", "s", "c", "r", "i", "p", "t">>)
           /\ EndsWith(Appended[1].newText, <<"<", "/", "s", "c", "r", "i", "p", "t", ">", "\n">>)

\* C9 amended: without a script tag, resolve appends one edit per text change of the code
\* actions, in their order, each an insertion at (0,0) of a complete script tag around that
\* change's text; the edits are a single one exactly when there is a single text change.
C9_NoScriptWrapperPerChange ==
    ResolvedWithoutScript
        => LET changes == TextChangesOf(resolved.request)
               given == resolved.request.completionItem.additionalTextEdits
           IN  /\ Len(Appended) = Len(changes)
               /\ \A k \in 1..Len(Appended) :
                     /\ Appended[k].range = ZeroRange
                     /\ Appended[k].newText = Wrapper(resolved.request, changes[k].newText)
               /\ Get(resolved.returned).item.additionalTextEdits
                     = Some((IF IsSome(given) THEN Get(given) ELSE <<>>) \o Appended)

\* C9: a document without a script tag and code actions with two text changes.
C9_TwoChangesWithoutScript ==
    /\ ResolvedWithoutScript
    /\ Len(TextChangesOf(resolved.request)) = 2
    /\ Len(Appended) = 2

(* C10 --------------------------------------------------------------------*)

\* The items of compiled components in a list.
ComponentItems(result) ==
    { i \in 1..Len(ItemsOf(result)) :
        /\ IsEngineItem(ItemsOf(result)[i])
        /\ isSvelteComponentImport(EntryOf(ItemsOf(result)[i]).name) }

\* C10 as stated: no list that getCompletions returns holds an item of a compiled component
\* whose rewritten name the document imports at the time of the request.
C10_NoImportedComponent ==
    (Called /\ IsSome(call.result))
        => \A i \in ComponentItems(call.result) :
              changeSvelteComponentName(EntryOf(ItemsOf(call.result)[i]).name)
                  \notin getExistingImports(call.request.document)

\* C10 amended: no list that getCompletions computes (rather than serves from the cache)
\* holds an item of a compiled component whose label the document imports at the time of
\* the request; the label is the rewritten name, followed by the kind modifier for a script
\* element that has one.
C10_NoImportedComponentComputed ==
    (Called /\ IsSome(call.result) /\ call.site # "reused")
        => \A i \in ComponentItems(call.result) :
              LET item == ItemsOf(call.result)[i]
                  name == changeSvelteComponentName(EntryOf(item).name)
              IN  /\ item.label \notin getExistingImports(call.request.document)
                  /\ item.label # name
                        => /\ EntryOf(item).kind = scriptElement
                           /\ item.label = name \o Get(EntryOf(item).kindModifiers)

\* C10: the engine offers a compiled component that the document imports, and the computed
\* list is without it.
C10_ImportedComponentOffered ==
    /\ Called
    /\ call.site = "computed"
    /\ \E e \in 1..Len(call.request.entries) :
          /\ isSvelteComponentImport(call.request.entries[e].name)
          /\ changeSvelteComponentName(call.request.entries[e].name)
                \in getExistingImports(call.request.document)
    /\ ComponentItems(call.result) = {}

(* C11 --------------------------------------------------------------------*)

\* The request was triggered by a typed character that is neither allowed nor '*' nor ':'.
DisallowedTrigger(rq) ==
    /\ TriggerKindOf(rq) = Some(TriggerCharacter)
    /\ IsSome(TriggerCharacterOf(rq))
    /\ Get(TriggerCharacterOf(rq)) \notin Range(validTriggerCharacters) \cup {"*", ":"}

\* C11: a request whose trigger kind is TriggerCharacter and whose trigger character is not
\* in the allow-list and is neither '*' nor ':' returns null, in every state of the cache.
C11_DisallowedTriggerIsNull ==
    (Called /\ DisallowedTrigger(call.request)) => call.result = None

\* C11: a disallowed character is typed outside the style tag, one column from the position
\* of a cached list of the same document, and the request is rejected at the trigger gate.
C11_DisallowedTriggerNextToCache ==
    /\ Called
    /\ DisallowedTrigger(call.request)
    /\ call.site = "invalidTrigger"
    /\ IsSome(call.before)
    /\ Some(Get(call.before).key) = call.request.document.filePath
    /\ Get(call.before).position.line = call.request.position.line
    /\ Abs(Get(call.before).position.character - call.request.position.character) = 1

(* C12 --------------------------------------------------------------------*)

\* The reuse predicate, on the cache as the call found it.
Reusable ==
    canReuseLastCompletion(call.before, TriggerKindOf(call.request),
                           TriggerCharacterOf(call.request), call.request)

\* The trigger gate and the two returns before it.
GateSites == {"style", "noFilePath", "invalidTrigger"}

\* The cache is empty or holds the list that this call computed and returned.
EmptyOrOwnList ==
    \/ lastCompletion = None
    \/ /\ IsSome(call.result)
       /\ call.site = "computed"
       /\ lastCompletion = Some([key |-> Get(call.request.document.filePath),
                                 position |-> call.request.position,
                                 completionList |-> call.result])

\* C12 as stated: after every request for which the reuse predicate does not hold on the
\* cache as the request found it, the cache is empty or holds the list this request
\* computed, the requests that the trigger gate rejects included.
C12_NoReuseDropsEntry == (Called /\ ~Reusable) => EmptyOrOwnList

\* C12 amended: after a request for which the reuse predicate does not hold, the cache is
\* empty or holds the list this request computed if the request reached the cache lookup,
\* and is what it was if the request was rejected before (style tag, no file path,
\* disallowed trigger character).
C12_NoReuseDropsEntryAfterGate ==
    (Called /\ ~Reusable)
        => IF call.site \in GateSites THEN lastCompletion = call.before ELSE EmptyOrOwnList

\* C12: a request that may not reuse the cached list computes and stores another one.
C12_EntryReplaced ==
    /\ Called
    /\ ~Reusable
    /\ IsSome(call.before)
    /\ call.site = "computed"
    /\ IsSome(lastCompletion)
    /\ lastCompletion # call.before

(* C13 --------------------------------------------------------------------*)

\* The call went past the cache lookup and returned a list.
MissedWithList ==
    /\ Called
    /\ call.site \notin GateSites \cup {"reused"}
    /\ IsSome(call.result)

\* The cache holds the returned list under the document's file path and the request's
\* position.
ListStored ==
    lastCompletion = Some([key |-> Get(call.request.document.filePath),
                           position |-> call.request.position,
                           completionList |-> call.result])

\* C13 as stated: after every request that misses the cache and returns a list, the cache
\* holds that list with the document's file path and the request's position, whichever
\* return statement produced the list.
C13_ReturnedListIsStored == MissedWithList => ListStored

\* C13 amended: after a request that misses the cache and returns a list, the cache holds
\* that list with the file path and the position if the list is the one built from the
\* translated engine entries at the end of getCompletions, and is empty if the list is the
\* metadata list of ':', the narrowed list, the doc-comment template or the empty list
\* returned for a parser error.
C13_OnlyFinalListIsStored ==
    MissedWithList => IF call.site = "computed" THEN ListStored ELSE lastCompletion = None

\* C13: a list with an engine item is computed over an earlier entry and stored.
C13_FinalListStored ==
    /\ MissedWithList
    /\ call.site = "computed"
    /\ IsSome(call.before)
    /\ \E i \in 1..Len(ItemsOf(call.result)) : IsEngineItem(ItemsOf(call.result)[i])
    /\ ListStored

(* C14 --------------------------------------------------------------------*)

\* The request before this one left a list of the document in the cache, and the text of
\* the document (its import statements) has changed since.
EditedAfterList ==
    /\ Called
    /\ IsSome(prev)
    /\ Get(prev).site \in {"computed", "reused"}
    /\ Get(prev).filePath = call.request.document.filePath
    /\ Get(prev).document # call.request.document

\* C14 as stated: when the text of the document is edited between two requests, the second
\* is never served the list that was computed before the edit.
C14_EditResetsCache == EditedAfterList => call.site # "reused"

\* C14 amended: an edit of the document does not touch the cache: the second request finds
\* the entry the first one left, and it is served the list computed before the edit exactly
\* when it reaches the cache lookup and the reuse predicate holds.
C14_EditKeepsCache ==
    EditedAfterList
        => /\ call.before = Some([key |-> Get(Get(prev).filePath),
                                  position |-> Get(prev).position,
                                  completionList |-> Get(prev).result])
           /\ (call.site = "reused") = (call.site \notin GateSites /\ Reusable)
           /\ call.site = "reused" => call.result = Get(prev).result

\* C14: the document comes to import C, and the next request is served the list computed
\* before, which offers C.
C14_StaleListServed ==
    /\ EditedAfterList
    /\ Get(prev).site = "computed"
    /\ call.site = "reused"
    /\ \E i \in 1..Len(ItemsOf(call.result)) :
          /\ IsEngineItem(ItemsOf(call.result)[i])
          /\ ItemsOf(call.result)[i].label \in getExistingImports(call.request.document)

(* C15 --------------------------------------------------------------------*)

\* The item's text edit starts on the anchor's line, at a column left of the anchor's.
StartsLeftOfAnchor ==
    /\ IsSome(fixed.completionItem.textEdit)
    /\ Get(fixed.completionItem.textEdit).range.start.line = fixed.wordRangePosition.line
    /\ Get(fixed.completionItem.textEdit).range.start.character
          < fixed.wordRangePosition.character

\* C15 as stated: fixTextEditRange changes an item only when its text edit starts on the
\* anchor's line at a column strictly left of the anchor's; an item without text edit, with
\* an edit on another line, or with an edit that starts at or after the anchor's column, is
\* returned with the same text edit and with no additional edit.
C15_OnlyEditsLeftOfAnchorChange ==
    (fixed.returned # None /\ ~StartsLeftOfAnchor)
        => /\ Get(fixed.returned).textEdit = fixed.completionItem.textEdit
           /\ Get(fixed.returned).additionalTextEdits = None

\* C15: an edit that starts on another line than the anchor, at a smaller column, comes
\* back with its start moved to the anchor's column and with an additional edit.
C15_OtherLineEditRewritten ==
    /\ fixed.returned # None
    /\ IsSome(fixed.completionItem.textEdit)
    /\ Get(fixed.completionItem.textEdit).range.start.line \in 0..MaxLine
    /\ Get(fixed.completionItem.textEdit).range.start.line # fixed.wordRangePosition.line
    /\ Get(fixed.completionItem.textEdit).range.start.character
          < fixed.wordRangePosition.character
    /\ Get(fixed.returned).textEdit # fixed.completionItem.textEdit
    /\ IsSome(Get(fixed.returned).additionalTextEdits)

(* C16 --------------------------------------------------------------------*)

\* The item toCompletionItem makes of a raw entry for the request, as getCompletions
\* calls it.
TranslatedOf(rq, comp) ==
    toCompletionItem(rq.document, comp, Lookup("pathToUrl", Get(rq.document.filePath)),
                     rq.position, getExistingImports(rq.document))

\* The raw entries that the call translated into items of its list.
TranslatedEntries ==
    IF Called /\ call.site = "computed"
    THEN { EntryOf(ItemsOf(call.result)[i]) :
              i \in { j \in 1..Len(ItemsOf(call.result)) :
                         IsEngineItem(ItemsOf(call.result)[j]) } }
    ELSE {}

\* The text edit of an item is made of the span, converted, and of the item's insert text,
\* or of its label when it has none.
EditOfSpan(item, comp) ==
    /\ Get(item.textEdit).range = convertRange(Get(comp.replacementSpan))
    /\ Get(item.textEdit).newText
          = IF IsSome(item.insertText) THEN Get(item.insertText) ELSE item.label

\* C16 as stated: for every raw entry translated into an item, of any kind and kind
\* modifier, the item has a text edit if and only if the entry carries a replacement span,
\* and the edit is made of the converted span and the insert text or the label.
C16_TextEditIffSpan ==
    \A comp \in TranslatedEntries :
        LET item == Get(TranslatedOf(call.request, comp))
        IN  /\ IsSome(item.textEdit) = IsSome(comp.replacementSpan)
            /\ IsSome(item.textEdit) => EditOfSpan(item, comp)

\* C16 amended: the item has a text edit if and only if the entry carries a replacement
\* span and is not a script element with a kind modifier; the edit is made of the converted
\* span and the item's insert text or label.
C16_TextEditIffSpanOutsideScriptElement ==
    \A comp \in TranslatedEntries :
        LET item == Get(TranslatedOf(call.request, comp))
        IN  /\ IsSome(item.textEdit)
                  = (/\ IsSome(comp.replacementSpan)
                     /\ ~(comp.kind = scriptElement /\ Truthy(comp.kindModifiers)))
            /\ IsSome(item.textEdit) => EditOfSpan(item, comp)

\* C16: the list holds the item of a script element with a kind modifier and a replacement
\* span, which has no text edit, and the item of another entry, which has one.
C16_ScriptElementSpanDropped ==
    /\ \E comp \in TranslatedEntries :
          /\ comp.kind = scriptElement
          /\ Truthy(comp.kindModifiers)
          /\ IsSome(comp.replacementSpan)
          /\ ~IsSome(Get(TranslatedOf(call.request, comp)).textEdit)
    /\ \E comp \in TranslatedEntries :
          /\ IsSome(Get(TranslatedOf(call.request, comp)).textEdit)
          /\ IsSome(Get(TranslatedOf(call.request, comp)).insertText)

(* C17 --------------------------------------------------------------------*)

\* The positions at which the items of a list were computed: each item translated from a
\* raw entry carries the position of the request that computed it.
OriginsOf(result) ==
    { Get(ItemsOf(result)[i].data).position :
         i \in { j \in 1..Len(ItemsOf(result)) : IsEngineItem(ItemsOf(result)[j]) } }

ServedFromCache == Called /\ call.site = "reused"

\* C17 as stated: whenever a list is served from the cache, the position at which it was
\* computed is on the line of the request and fewer than 4 characters away from it.
C17_ServedNearOrigin ==
    ServedFromCache
        => \A origin \in OriginsOf(call.result) :
              /\ origin.line = call.request.position.line
              /\ Abs(origin.character - call.request.position.character) < 4

\* C17 amended: whenever a list is served from the cache, the position at which it was
\* computed is on the line of the request, and the position the cache held, that of the
\* request before, is on that line and fewer than 4 characters away.
C17_ServedNearLastPosition ==
    ServedFromCache
        => /\ \A origin \in OriginsOf(call.result) : origin.line = call.request.position.line
           /\ Get(call.before).position.line = call.request.position.line
           /\ Abs(Get(call.before).position.character - call.request.position.character) < 4

\* C17: after consecutive hits a list is served 4 characters away from where it was
\* computed.
C17_ServedFarFromOrigin ==
    /\ ServedFromCache
    /\ \E origin \in OriginsOf(call.result) :
          /\ origin.line = call.request.position.line
          /\ Abs(origin.character - call.request.position.character) >= 4
    /\ Abs(Get(call.before).position.character - call.request.position.character) < 4
====
